---- MODULE Spec2Model ----
(***************************************************************************)
(* Model of the supervised batch-conversion pipeline of OfficeToPDF       *)
(* (office_converter.py, office_gui.py): the orchestrator thread running  *)
(* OfficeConverter.run / run_batch / process_single_file, the conversion  *)
(* worker threads it starts, the external engine, and the target,         *)
(* quarantine and sandbox folders.                                         *)
(*                                                                         *)
(* Time: `elapsed` counts poll steps of the current wait loop; `now` is    *)
(* the wall clock in half seconds, a time stamp in a file name is the      *)
(* second now \div 2.                                                       *)
(* Paths: a work item is an opaque path; its base name, extension category,*)
(* keyword match and byte size are facts read from it when it is processed.*)
(***************************************************************************)
EXTENDS Integers, Sequences, FiniteSets, TLC

\* ---- bounds of the model ----
MaxFiles == 2
MaxSize == 2
TimeoutTicks == 1
WaitTicks == 1
\* calls of handle_file_conflict in a placement run
MaxPlacements == 3
\* conversions of the initial pass that may time out or yield no artifact
MaxFaults == 1
MaxFailedVolumes == 1
\* artifacts in the target folder of a merge run, and values of max_merge_size_mb
MaxArtifacts == 3
MaxArtifactSize == 3
MaxMergeSize == 3
\* collect mode: the runs over the same folders, the distinct contents of one size
MaxRuns == 2
MaxHash == 2
\* the files of a source tree the two scans are compared on
MaxTree == 2

\* per-category budgets (config timeout_seconds / ppt_timeout_seconds,
\* pdf_wait_seconds / ppt_pdf_wait_seconds), in poll steps
PptTimeoutTicks == TimeoutTicks + 1
PptWaitTicks == WaitTicks + 1

Cats == {"word", "excel", "ppt", "pdf"}
Bases == {"a"}
Ids == 1..(2 * MaxFiles)

KILL_MODE_ASK == "ask"
KILL_MODE_AUTO == "auto"
KILL_MODE_KEEP == "keep"
MODE_CONVERT_ONLY == "convert_only"
MODE_CONVERT_THEN_MERGE == "convert_then_merge"
MODE_MERGE_ONLY == "merge_only"
MODE_COLLECT_ONLY == "collect_only"
COLLECT_MODE_COPY_AND_INDEX == "copy_and_index"
COLLECT_MODE_INDEX_ONLY == "index_only"
STRATEGY_STANDARD == "standard"
STRATEGY_SMART_TAG == "smart_tag"
STRATEGY_PRICE_ONLY == "price_only"
MERGE_MODE_CATEGORY == "category_split"
MERGE_MODE_ALL_IN_ONE == "all_in_one"

VARIABLES
    config,          \* frontend, run_mode, collect_mode, kill_process_mode, content_strategy,
                     \* enable_sandbox, target_in_source (the target folder lies in the source folder),
                     \* source_exists (the source folder is there when run scans it)
    pc,              \* position of the orchestrator thread
    pass,            \* "initial" or "retry" (is_retry)
    file_list,       \* the list run_batch iterates over
    idx,             \* 1-based position of run_batch in file_list
    cur,             \* facts of the file being processed
    ctx,             \* result_context of the file being processed
    elapsed,         \* poll steps spent in the current wait loop
    is_running,      \* the keep-running flag
    reuse_process,   \* OfficeConverter.reuse_process
    stats,           \* BatchStats
    error_records,   \* ErrorRecord list (source paths)
    alive,           \* ids of the conversion worker threads that are alive
    engine,          \* per id: the engine app still working for it, or "none"
    unscanned,       \* ids of the alive workers that have yet to scan the content
    sandbox_src,     \* ids whose scratch source copy exists
    sandbox_pdf,     \* per id: size of the scratch artifact, 0 = absent
    target,          \* files under the target folder (canonical and conflicts)
    failed_dir,      \* files in the quarantine folder
    now,             \* wall clock, half seconds
    kills,           \* the force-terminations issued by the latest step that issued any
    last,            \* the outcome of the latest resolved per-file iteration
    started,         \* ids of the per-file iterations begun, in order
    merged,          \* merge_pdfs was invoked
    merge_cfg,       \* the options the merge phase of run has read
    volumes,         \* the volumes assembled for the merge output folder, in order
    source,          \* the office files of the source folder (the target folder apart)
    collected,       \* the files collect mode wrote under the target folder
    collect,         \* the locals of collect_office_files_and_build_excel, and the run number
    call,            \* one invocation of _safe_exec: its loop index, calls, backoffs, result
    walk,            \* a folder tree, the excluded folders and the lists the two scans yield
    ops,             \* the operations on source and scratch files of the latest step that made any
    gui              \* OfficeGUI: worker_thread, the worker threads' positions, current_converter,
                     \* stop_requested, the position of stop_task

vars == <<config, pc, pass, file_list, idx, cur, ctx, elapsed, is_running,
          reuse_process, stats, error_records, alive, engine, unscanned,
          sandbox_src, sandbox_pdf, target, failed_dir, now, kills, last, started,
          merged, merge_cfg, volumes, source, collected, collect, call, walk, ops, gui>>

NoFile == [id |-> 0, src |-> 0, base |-> "", sfx |-> 0, cat |-> "", kw |-> FALSE, size |-> 0]
NoPath == [dir |-> "", prefix |-> "", base |-> "", sfx |-> 0, ts |-> 0]
NoOutcome ==
    [id |-> 0, pass |-> "", cat |-> "", kw |-> FALSE, size |-> 0, out |-> "", path |-> NoPath]
\* a scanned source path: its name, keyword match and size are read when it is processed
Scanned(i) == [path |-> [base |-> "", sfx |-> 0, cat |-> ""], kw |-> FALSE, size |-> 0, src |-> i]
NoMerge == [enable_merge |-> FALSE, merge_mode |-> "", max_size |-> 0]
NoCtx == [is_price |-> FALSE, scan_aborted |-> FALSE, skip_scan |-> FALSE]

\* uuid.uuid4(): one fresh scratch name per call of process_single_file
Id(p, i) == IF p = "initial" THEN i ELSE MaxFiles + i

\* ---- configuration ----
AllConfigs ==
    { c \in [frontend : {"cli", "gui"},
             run_mode : {MODE_CONVERT_ONLY, MODE_MERGE_ONLY, MODE_CONVERT_THEN_MERGE,
                         MODE_COLLECT_ONLY},
             collect_mode : {COLLECT_MODE_COPY_AND_INDEX, COLLECT_MODE_INDEX_ONLY},
             kill_process_mode : {KILL_MODE_ASK, KILL_MODE_AUTO, KILL_MODE_KEEP},
             content_strategy : {STRATEGY_STANDARD, STRATEGY_SMART_TAG, STRATEGY_PRICE_ONLY},
             enable_sandbox : BOOLEAN,
             target_in_source : BOOLEAN,
             source_exists : BOOLEAN] :
        \* the GUI offers only auto and keep (office_gui.py load of kill_process_mode)
        c.frontend = "gui" => c.kill_process_mode \in {KILL_MODE_AUTO, KILL_MODE_KEEP} }

\* the configuration the options are varied against: CLI, policy auto, the defaults of
\* __init__ for the run mode and the collect mode, the defaults of create_default_config
\* for the strategy, the sandbox and the folders (target outside the source)
BaseConfig ==
    [frontend |-> "cli", run_mode |-> MODE_CONVERT_THEN_MERGE,
     collect_mode |-> COLLECT_MODE_COPY_AND_INDEX, kill_process_mode |-> KILL_MODE_AUTO,
     content_strategy |-> STRATEGY_STANDARD, enable_sandbox |-> TRUE,
     target_in_source |-> FALSE, source_exists |-> TRUE]

\* the configurations explored: every option takes each of its values, against the
\* base values of the other options (front end and process policy count as one option)
\* the options of collect mode are varied in collect mode only, and the run mode is
\* varied under either front end; a source folder that is missing is explored in the
\* converting modes, against the base values of the options of the conversion
Configs ==
    { c \in AllConfigs :
        /\ ~c.source_exists =>
              /\ c.run_mode \in {MODE_CONVERT_ONLY, MODE_CONVERT_THEN_MERGE}
              /\ c.kill_process_mode = BaseConfig.kill_process_mode
              /\ c.content_strategy = BaseConfig.content_strategy
              /\ c.enable_sandbox = BaseConfig.enable_sandbox
        /\ \/ /\ c.run_mode = BaseConfig.run_mode
              /\ c.collect_mode = BaseConfig.collect_mode
              /\ c.target_in_source = BaseConfig.target_in_source
              /\ \/ c.content_strategy = BaseConfig.content_strategy
                       /\ c.enable_sandbox = BaseConfig.enable_sandbox
                 \/ c.frontend = BaseConfig.frontend
                       /\ c.kill_process_mode = BaseConfig.kill_process_mode
                       /\ (c.content_strategy = BaseConfig.content_strategy
                             \/ c.enable_sandbox = BaseConfig.enable_sandbox)
           \/ /\ c.run_mode # BaseConfig.run_mode
              /\ c.kill_process_mode = BaseConfig.kill_process_mode
              /\ c.content_strategy = BaseConfig.content_strategy
              /\ c.enable_sandbox = BaseConfig.enable_sandbox
              /\ Cardinality({ o \in {"frontend", "collect_mode", "target_in_source"} :
                                  c[o] # BaseConfig[o] })
                    <= (IF c.run_mode = MODE_COLLECT_ONLY THEN 1 ELSE 0) }

source_root == <<"S">>

\* config["target_folder"]: apart from the source folder, or the folder "o" in it
target_root == IF config.target_in_source THEN <<"S", "o">> ELSE <<"T">>

\* the office files a source folder may hold: two in the folder itself, one in a subfolder
SourcePaths == { <<"S", "a">>, <<"S", "b">>, <<"S", "s", "a">> }

\* the source folders explored: every choice of files, sizes and contents (hash: the
\* SHA-256 digest of the content), and the folders of four files of one size, with a
\* second file in the subfolder
Sources ==
    UNION { { { [path |-> q, size |-> c[q].size, hash |-> c[q].hash] : q \in Q } :
                c \in [Q -> [size : 1..MaxSize, hash : 1..MaxHash]] } :
              Q \in SUBSET SourcePaths }
      \cup { { [path |-> q, size |-> 1, hash |-> h[q]] : q \in SourcePaths \cup {<<"S", "s", "b">>} } :
               h \in [SourcePaths \cup {<<"S", "s", "b">>} -> 1..MaxHash] }

NoCollect ==
    [run |-> 1, all_files |-> <<>>, todo |-> <<>>, unique_records |-> <<>>,
     duplicate_records |-> <<>>, group_id_counter |-> 1, hashed |-> {}, copy_idx |-> 1,
     copied_count |-> 0]

\* no invocation of _safe_exec is under observation
NoCall == [attempt |-> 0, calls |-> 0, errors |-> <<>>, slept |-> <<>>, result |-> ""]

\* no folder tree is under observation
NoWalk ==
    [tree |-> {}, excluded_folders |-> {}, ran |-> {}, files |-> <<>>, all_files |-> <<>>]

\* OfficeGUI.__init__: no worker thread (0), no converter (0: None); a worker thread is
\* named by its number in the order of the starts
NoGui ==
    [worker_thread |-> 0, at |-> [w \in 1..MaxRuns |-> "none"], current_converter |-> 0,
     stop_requested |-> FALSE, stop_pc |-> "idle", refused |-> FALSE, error |-> ""]

\* the artifacts a target folder holds when a merge-only run starts: none, or one
SeedTargets ==
    {{}} \cup { { [path |-> [dir |-> "", prefix |-> x, base |-> "a", sfx |-> 0, ts |-> 0],
                   size |-> 1, by |-> 0] } : x \in {"Word_", "PDF_"} }

\* what the quarantine folder may hold when a run starts, the folder being kept from run
\* to run (no code removes a file from it): nothing, or a lock file of an office app and
\* a text file, or the copy of a PDF that failed in an earlier run
LeftInQuarantine ==
    {{}} \cup
    { { [path |-> [base |-> "~$a", sfx |-> 0, cat |-> "word"], kw |-> FALSE, size |-> 1,
         src |-> 0],
        [path |-> [base |-> "a", sfx |-> 0, cat |-> "other"], kw |-> FALSE, size |-> 1,
         src |-> 0] },
      { [path |-> [base |-> "a", sfx |-> 0, cat |-> "pdf"], kw |-> FALSE, size |-> 1,
         src |-> 0] } }

\* the size of the saved workbook, which no document has
IndexSize == MaxSize + 1

Init ==
    /\ config \in Configs
    /\ pc = "wizard"
    /\ pass = "initial"
    /\ file_list = <<>>
    /\ idx = 1
    /\ cur = NoFile
    /\ ctx = NoCtx
    /\ elapsed = 0
    /\ is_running = TRUE
    /\ reuse_process = FALSE
    /\ stats = [total |-> 0, success |-> 0, failed |-> 0, timeout |-> 0, skipped |-> 0]
    /\ error_records = <<>>
    /\ alive = {}
    /\ engine = [i \in Ids |-> "none"]
    /\ unscanned = {}
    /\ sandbox_src = {}
    /\ sandbox_pdf = [i \in Ids |-> 0]
    /\ target \in (IF config.run_mode = MODE_MERGE_ONLY THEN SeedTargets ELSE {{}})
    /\ failed_dir \in (IF config = BaseConfig THEN LeftInQuarantine ELSE {{}})
    /\ now = 0
    /\ kills = {}
    /\ last = NoOutcome
    /\ started = <<>>
    /\ merged = FALSE
    /\ merge_cfg = NoMerge
    /\ volumes = <<>>
    /\ source \in (IF config.run_mode = MODE_COLLECT_ONLY THEN Sources ELSE {{}})
    /\ collected = {}
    /\ collect = NoCollect
    /\ call = NoCall
    /\ walk = NoWalk
    /\ ops = {}
    /\ gui = NoGui

\* ---- process management ----

\* taskkill /F /IM of every engine app
cleanup_all_processes(why) ==
    [kills |-> { [why |-> why, app |-> a] : a \in {"word", "excel", "ppt"} },
     engine |-> [i \in Ids |-> "none"]]

\* _kill_current_app: kills the app of one category unless processes are reused
_kill_current_app(app, rp) ==
    IF rp
    THEN [kills |-> kills, engine |-> engine]
    ELSE [kills |-> {[why |-> "timeout", app |-> app]},
          engine |-> [i \in Ids |-> IF engine[i] = app THEN "none" ELSE engine[i]]]

\* the run modes that convert
ConvertModes == {MODE_CONVERT_ONLY, MODE_CONVERT_THEN_MERGE}

\* close_office_apps
close_office_apps(why) ==
    IF ~reuse_process /\ config.run_mode \notin {MODE_MERGE_ONLY, MODE_COLLECT_ONLY}
    THEN cleanup_all_processes(why)
    ELSE [kills |-> kills, engine |-> engine]

\* cli_wizard -> check_and_handle_running_processes; the GUI worker never calls it
\* running: engine processes were found; choice: the operator's answer in mode ask
check_and_handle_running_processes(running, choice) ==
    IF config.run_mode \in {MODE_MERGE_ONLY, MODE_COLLECT_ONLY}
    THEN [reuse |-> reuse_process, kill |-> FALSE]
    ELSE IF config.kill_process_mode = KILL_MODE_KEEP
    THEN [reuse |-> TRUE, kill |-> FALSE]
    ELSE IF ~running
    THEN [reuse |-> reuse_process, kill |-> FALSE]
    ELSE IF config.kill_process_mode = KILL_MODE_AUTO
    THEN [reuse |-> FALSE, kill |-> TRUE]
    ELSE IF choice = 1 THEN [reuse |-> FALSE, kill |-> TRUE]
    ELSE [reuse |-> TRUE, kill |-> FALSE]

\* ---- target naming and placement ----

CatPrefix(cat) ==
    CASE cat = "word" -> "Word_"
      [] cat = "excel" -> "Excel_"
      [] cat = "ppt" -> "PPT_"
      [] OTHER -> "PDF_"

\* get_target_path: {prefix}{base-name}.pdf under the target folder
get_target_path(f, prefix_override) ==
    [dir |-> "", prefix |-> IF prefix_override # "" THEN prefix_override ELSE CatPrefix(f.cat),
     base |-> f.base, sfx |-> f.sfx, ts |-> 0]

Stamp(t) == t \div 2

Exists(dirset, p) == \E x \in dirset : x.path = p
FileAt(dirset, p) == CHOOSE x \in dirset : x.path = p
Without(dirset, p) == { x \in dirset : x.path # p }

\* handle_file_conflict: tgt is the target folder, size/by the scratch artifact,
\* rm_ok whether os.remove of the existing destination succeeds
handle_file_conflict(tgt, size, by, dest, t, rm_ok) ==
    IF ~Exists(tgt, dest)
    THEN [status |-> "Succeeded", path |-> dest,
          target |-> tgt \cup {[path |-> dest, size |-> size, by |-> by]}]
    ELSE IF size = FileAt(tgt, dest).size
    THEN IF rm_ok
         THEN [status |-> "Overwritten", path |-> dest,
               target |-> Without(tgt, dest) \cup {[path |-> dest, size |-> size, by |-> by]}]
         ELSE [status |-> "OverwriteFailed", path |-> dest, target |-> tgt]
    ELSE LET new_path == [dest EXCEPT !.dir = "conflicts", !.ts = Stamp(t)]
         IN  [status |-> "ConflictBacked", path |-> new_path,
              target |-> Without(tgt, new_path)
                            \cup {[path |-> new_path, size |-> size, by |-> by]}]

\* quarantine_failed_file: copy the source into _FAILED_FILES, time-suffixed when
\* the name is taken; shutil.copy2 replaces a file already at the chosen name
quarantine_failed_file(fd, f, t) ==
    LET plain == [base |-> f.base, sfx |-> f.sfx, cat |-> f.cat]
        name == IF Exists(fd, plain) THEN [plain EXCEPT !.sfx = Stamp(t) + 1] ELSE plain
    IN  Without(fd, name)
          \cup {[path |-> name, kw |-> f.kw, size |-> f.size, src |-> f.src]}

\* time passed since the last time-stamped name, read only when the name is taken
QuarantineDelays(f) ==
    IF Exists(failed_dir, [base |-> f.base, sfx |-> f.sfx, cat |-> f.cat])
    THEN 0..2 ELSE {0}

\* ---- the orchestrator: run, run_batch, process_single_file ----

Bump(field) == [stats EXCEPT ![field] = @ + 1]

\* one budget for every category
base_timeout(f) == TimeoutTicks

current_timeout(f) == IF f.cat = "ppt" THEN PptTimeoutTicks ELSE TimeoutTicks
\* one wait window for every category
base_wait(f) == WaitTicks

current_pdf_wait(f) == IF f.cat = "ppt" THEN PptWaitTicks ELSE WaitTicks

LogEntry(f, out, p) ==
    [id |-> f.id, pass |-> pass, cat |-> f.cat, kw |-> f.kw, size |-> f.size, out |-> out,
     path |-> p]

\* the facts of the file at position idx: read from the path in the initial pass,
\* those of the quarantined copy in a retry pass
Facts ==
    IF pass = "initial"
    THEN { f \in [id : {Id(pass, idx)}, src : {file_list[idx].src}, base : Bases, sfx : {0},
                  cat : Cats, kw : BOOLEAN, size : 0..MaxSize] :
             \* the name is matched against the keywords only off the standard strategy,
             \* the size of an office source is only compared with 0
             /\ config.content_strategy = STRATEGY_STANDARD => ~f.kw
             /\ f.cat # "pdf" => f.size <= 1 }
    ELSE LET e == file_list[idx]
         IN  { [id |-> Id(pass, idx), src |-> e.src, base |-> e.path.base,
                sfx |-> e.path.sfx, cat |-> e.path.cat, kw |-> e.kw, size |-> e.size] }

is_filename_match(f) == config.content_strategy # STRATEGY_STANDARD /\ f.kw

\* a working path that is the source path whatever the configuration says
working_src_original(use_sandbox) == "source"

\* process_single_file: working_src, the path handed to the scan and to the engine:
\* the scratch copy when sandboxing is on, the source path otherwise
working_src(use_sandbox) == IF use_sandbox THEN "scratch" ELSE "source"

Op(id, op, on) == [id |-> id, op |-> op, on |-> on]

\* shutil.copy2(file_path, sandbox_src_path) and _unblock_file(sandbox_src_path)
sandbox_copy_ops(id) ==
    IF config.enable_sandbox
    THEN {Op(id, "copy_to_sandbox", "source"), Op(id, "unblock", "scratch")}
    ELSE {}

\* the finally clause of process_single_file: os.remove(sandbox_src_path) if it was set
finally_ops(id) == IF config.enable_sandbox THEN {Op(id, "remove", "scratch")} ELSE {}

\* run_batch's except branch in the initial pass: shutil.copy2(source_path, target)
quarantine_ops(id) == IF pass = "initial" THEN {Op(id, "quarantine_copy", "source")} ELSE {}

\* ops after a step: the operations of the step if it made any
Did(o) == IF o = {} THEN ops ELSE o

EntryScanFirst == "scan"

\* run: the branch on run_mode
Entry ==
    IF config.run_mode = MODE_COLLECT_ONLY THEN "collect"
    ELSE IF config.run_mode = MODE_MERGE_ONLY THEN "merge"
    ELSE "scan"

\* cli_wizard (CLI) or the start of OfficeGUI.start_task.worker (GUI)
Wizard ==
    /\ pc = "wizard"
    /\ IF config.frontend = "cli"
       THEN \E running \in BOOLEAN, choice \in 1..3 :
              LET r == check_and_handle_running_processes(running, choice)
                  asked == /\ config.run_mode \in ConvertModes
                           /\ running /\ config.kill_process_mode = KILL_MODE_ASK
                  k == IF r.kill THEN cleanup_all_processes("wizard")
                                 ELSE [kills |-> kills, engine |-> engine]
              IN  \* the process list is read in a converting mode off policy keep only
                  /\ (config.run_mode \notin ConvertModes
                        \/ config.kill_process_mode = KILL_MODE_KEEP) => ~running
                  /\ ~asked => choice = 1
                  /\ pc' = IF asked /\ choice = 3 THEN "exited" ELSE Entry
                  /\ reuse_process' = IF asked /\ choice = 3 THEN reuse_process ELSE r.reuse
                  /\ kills' = IF asked /\ choice = 3 THEN kills ELSE k.kills
       ELSE /\ pc' = Entry
            /\ UNCHANGED <<reuse_process, kills>>
    /\ UNCHANGED <<config, gui, call, walk, ops, source, collected, collect, merge_cfg, volumes, pass, file_list, idx, cur, ctx, elapsed, is_running, stats,
                   error_records, alive, engine, unscanned, sandbox_src, sandbox_pdf,
                   target, failed_dir, now, last, started, merged>>

\* a scan that finds files whether the source folder is there or not
scan_counts_any(exists) == 0..MaxFiles

\* run: the numbers of files the scan may find; a source folder that does not exist is
\* logged and leaves files empty and stats.total as it was
scan_counts(exists) == IF exists THEN 0..MaxFiles ELSE {0}

\* run: the scan of the source folder, stats.total, the call of run_batch
Scan ==
    /\ pc = "scan"
    /\ \E n \in scan_counts(config.source_exists) :
         /\ file_list' = [i \in 1..n |-> Scanned(i)]
         /\ stats' = [stats EXCEPT !.total = n]
    /\ pc' = "top"
    /\ idx' = 1
    /\ UNCHANGED <<config, gui, call, walk, ops, source, collected, collect, merge_cfg, volumes, pass, cur, ctx, elapsed, is_running, reuse_process,
                   error_records, alive, engine, unscanned, sandbox_src, sandbox_pdf,
                   target, failed_dir, now, kills, last, started, merged>>

\* a batch that stops at the first failure
BatchOverOnFailure ==
    idx > Len(file_list) \/ ~is_running \/ stats.failed + stats.timeout > 0

\* a batch that never looks at the keep-running flag
BatchOverIgnoringFlag == idx > Len(file_list)

\* run_batch's for loop is over: the list is exhausted or is_running is false
BatchOver == idx > Len(file_list) \/ ~is_running

\* the per-file iteration of run_batch begins: is_running checked, file in range
IterGuard == pc = "top" /\ ~BatchOver

\* what every resolution of a per-file iteration does to the loop position
NextIter ==
    /\ pc' = "top"
    /\ idx' = idx + 1
    /\ cur' = NoFile
    /\ ctx' = NoCtx
    /\ elapsed' = 0

\* process_single_file: size 0 -> skipped, before anything else
StartSkipEmpty ==
    /\ IterGuard
    /\ \E f \in Facts :
         /\ f.size = 0
         /\ stats' = Bump("skipped")
         /\ last' = (LogEntry(f, "SkippedEmpty", get_target_path(f, "")))
         /\ started' = Append(started, f.id)
    /\ NextIter
    /\ UNCHANGED <<config, gui, call, walk, ops, source, collected, collect, merge_cfg, volumes, pass, file_list, is_running, reuse_process, error_records,
                   alive, engine, unscanned, sandbox_src, sandbox_pdf, target,
                   failed_dir, now, kills, merged>>

\* process_single_file: price_only strategy skips word / ppt without a name match
StartSkipType ==
    /\ IterGuard
    /\ \E f \in Facts :
         /\ f.size # 0
         /\ config.content_strategy = STRATEGY_PRICE_ONLY
         /\ ~is_filename_match(f)
         /\ f.cat \in {"word", "ppt"}
         /\ stats' = Bump("skipped")
         /\ last' = (LogEntry(f, "SkippedType", get_target_path(f, "")))
         /\ started' = Append(started, f.id)
    /\ NextIter
    /\ UNCHANGED <<config, gui, call, walk, ops, source, collected, collect, merge_cfg, volumes, pass, file_list, is_running, reuse_process, error_records,
                   alive, engine, unscanned, sandbox_src, sandbox_pdf, target,
                   failed_dir, now, kills, merged>>

\* a size check that lets empty files through
ProceedsEmptyToo(f) ==
    ~(config.content_strategy = STRATEGY_PRICE_ONLY /\ ~is_filename_match(f)
         /\ f.cat \in {"word", "ppt"})

\* process_single_file goes on to the conversion: neither empty nor skipped by type
Proceeds(f) ==
    /\ f.size # 0
    /\ ~(config.content_strategy = STRATEGY_PRICE_ONLY /\ ~is_filename_match(f)
            /\ f.cat \in {"word", "ppt"})

\* process_single_file, canonical-format input: sandbox copy, content scan,
\* direct byte copy to the scratch artifact (or skip when price_only finds no keyword)
StartPdf ==
    /\ IterGuard
    /\ \E f \in Facts, has_kw \in BOOLEAN :
         LET scan == ~is_filename_match(f) /\ config.content_strategy # STRATEGY_STANDARD
         IN
         /\ Proceeds(f)
         /\ f.cat = "pdf"
         /\ scan \/ has_kw = FALSE
         /\ started' = Append(started, f.id)
         /\ IF scan /\ ~has_kw /\ config.content_strategy = STRATEGY_PRICE_ONLY
            THEN \* return inside try: the finally clause removes the scratch copy
                 /\ stats' = Bump("skipped")
                 /\ last' = (LogEntry(f, "SkippedNoKeyword", get_target_path(f, "")))
                 /\ ops' = sandbox_copy_ops(f.id)
                              \cup {Op(f.id, "scan", working_src(config.enable_sandbox))}
                              \cup finally_ops(f.id)
                 /\ NextIter
                 /\ UNCHANGED <<sandbox_src, sandbox_pdf>>
            ELSE /\ cur' = f
                 /\ ctx' = [is_price |-> is_filename_match(f) \/ (scan /\ has_kw),
                            scan_aborted |-> FALSE, skip_scan |-> is_filename_match(f)]
                 /\ sandbox_src' = IF config.enable_sandbox
                                   THEN sandbox_src \cup {f.id} ELSE sandbox_src
                 /\ sandbox_pdf' = [sandbox_pdf EXCEPT ![f.id] = f.size]
                 /\ ops' = sandbox_copy_ops(f.id)
                              \cup (IF scan
                                    THEN {Op(f.id, "scan", working_src(config.enable_sandbox))}
                                    ELSE {})
                              \cup {Op(f.id, "copy_pdf", working_src(config.enable_sandbox))}
                 /\ pc' = "waitpdf"
                 /\ elapsed' = 0
                 /\ UNCHANGED <<idx, stats, last>>
    /\ UNCHANGED <<config, gui, call, walk, source, collected, collect, merge_cfg, volumes, pass, file_list, is_running, reuse_process, error_records,
                   alive, engine, unscanned, target, failed_dir, now, kills, merged>>

\* a worker that scans every workbook off the standard strategy
NeedsScanAnyName(f) == f.cat = "excel" /\ config.content_strategy # STRATEGY_STANDARD

\* whether convert_logic_in_thread scans the content before exporting
NeedsScan(f) ==
    f.cat = "excel" /\ ~is_filename_match(f) /\ config.content_strategy # STRATEGY_STANDARD

\* process_single_file, office input: sandbox copy, start of the worker thread
StartThread ==
    /\ IterGuard
    /\ \E f \in Facts :
         /\ Proceeds(f)
         /\ f.cat # "pdf"
         /\ started' = Append(started, f.id)
         /\ cur' = f
         /\ ctx' = [is_price |-> is_filename_match(f), scan_aborted |-> FALSE,
                    skip_scan |-> is_filename_match(f)]
         /\ sandbox_src' = IF config.enable_sandbox THEN sandbox_src \cup {f.id} ELSE sandbox_src
         /\ alive' = alive \cup {f.id}
         \* the thread is given working_src as the file the engine opens
         /\ ops' = sandbox_copy_ops(f.id)
                      \cup {Op(f.id, "engine", working_src(config.enable_sandbox))}
         /\ engine' = [engine EXCEPT ![f.id] = f.cat]
         /\ unscanned' = IF NeedsScan(f) THEN unscanned \cup {f.id} ELSE unscanned
    /\ pc' = "poll"
    /\ elapsed' = 0
    /\ UNCHANGED <<config, gui, call, walk, source, collected, collect, merge_cfg, volumes, pass, file_list, idx, is_running, reuse_process, stats,
                   error_records, sandbox_pdf, target, failed_dir, now, kills, last, merged>>

\* the finally clause of process_single_file: both scratch files removed if present
CleanSrc(id) == sandbox_src \ {id}
CleanPdf(id) == [sandbox_pdf EXCEPT ![id] = 0]

\* the engine may be too slow for the file at hand: always in a retry pass, in the
\* initial pass as long as fewer than MaxFaults files have failed
FaultAllowed == pass = "retry" \/ Len(error_records) < MaxFaults

\* a poll that only ends with the thread
PollExitNoBudget(f) == f.id \notin alive

\* the worker-completion poll: leave when the thread ended or the budget is exceeded
PollExit(f) == f.id \notin alive \/ elapsed > current_timeout(f)

Poll ==
    /\ pc = "poll"
    /\ IF PollExit(cur)
       THEN pc' = "joined" /\ UNCHANGED elapsed
       ELSE /\ elapsed < current_timeout(cur) \/ FaultAllowed
            /\ pc' = "poll"
            /\ elapsed' = elapsed + 1
    /\ UNCHANGED <<config, gui, call, walk, ops, source, collected, collect, merge_cfg, volumes, pass, file_list, idx, cur, ctx, is_running, reuse_process,
                   stats, error_records, alive, engine, unscanned, sandbox_src,
                   sandbox_pdf, target, failed_dir, now, kills, last, started, merged>>

\* an except branch that forgets is_retry
QuarantineAlways == TRUE

\* run_batch's except branch: quarantine and error record, initial pass only
ShouldQuarantine == pass = "initial"

\* run_batch's except branch: an error whose message contains the timeout text counts
\* nothing (the timeout was counted where it was raised), any other error counts failed
run_batch_except(says_timeout) == IF says_timeout THEN stats ELSE Bump("failed")

\* process_single_file: the sandbox copy raises (shutil.copy2: the source is locked, the
\* scratch folder is gone or full); the message of the OSError quotes the path of the
\* file, which may contain the timeout text; finally, then run_batch's except branch
StartRaises ==
    /\ IterGuard
    /\ config.enable_sandbox
    /\ FaultAllowed
    /\ \E f \in Facts, path_says_timeout \in BOOLEAN :
         /\ Proceeds(f)
         /\ started' = Append(started, f.id)
         /\ stats' = run_batch_except(path_says_timeout)
         /\ ops' = {Op(f.id, "copy_to_sandbox", "source")} \cup quarantine_ops(f.id)
         /\ last' = (LogEntry(f, "Failed", get_target_path(f, "")))
         /\ IF ShouldQuarantine
            THEN \E d \in QuarantineDelays(f) :
                   /\ now' = now + d
                   /\ failed_dir' = quarantine_failed_file(failed_dir, f, now + d)
                   /\ error_records' = Append(error_records, f.src)
            ELSE UNCHANGED <<now, failed_dir, error_records>>
    /\ NextIter
    /\ UNCHANGED <<config, gui, call, walk, source, collected, collect, merge_cfg, volumes, pass, file_list,
                   is_running, reuse_process, alive, engine, unscanned, sandbox_src,
                   sandbox_pdf, target, kills, merged>>

\* convert_thread.join(0.1) returned and the thread is still alive: TimedOut
\* (stats.timeout, kill of the category's app, raise, finally, except branch)
CheckTimedOut ==
    /\ pc = "joined"
    /\ cur.id \in alive
    /\ LET k == _kill_current_app(cur.cat, reuse_process)
       IN  kills' = k.kills /\ engine' = k.engine
    /\ stats' = Bump("timeout")
    /\ ops' = Did(finally_ops(cur.id) \cup quarantine_ops(cur.id))
    /\ sandbox_src' = CleanSrc(cur.id)
    /\ sandbox_pdf' = CleanPdf(cur.id)
    /\ IF ShouldQuarantine
       THEN \E d \in QuarantineDelays(cur) :
              /\ now' = now + d
              /\ failed_dir' = quarantine_failed_file(failed_dir, cur, now + d)
              /\ error_records' = Append(error_records, cur.src)
       ELSE UNCHANGED <<now, failed_dir, error_records>>
    /\ last' = (LogEntry(cur, "TimedOut", get_target_path(cur, "")))
    /\ NextIter
    /\ UNCHANGED <<config, gui, call, walk, source, collected, collect, merge_cfg, volumes, pass, file_list, is_running, reuse_process, alive, unscanned,
                   target, started, merged>>

\* the thread ended in time: skipped when its scan aborted, else on to the artifact wait
CheckEnded ==
    /\ pc = "joined"
    /\ cur.id \notin alive
    /\ IF ctx.scan_aborted
       THEN /\ stats' = Bump("skipped")
            /\ ops' = Did(finally_ops(cur.id))
            /\ sandbox_src' = CleanSrc(cur.id)
            /\ sandbox_pdf' = CleanPdf(cur.id)
            /\ last' = (LogEntry(cur, "SkippedNoKeyword", get_target_path(cur, "")))
            /\ NextIter
       ELSE /\ pc' = "waitpdf"
            /\ elapsed' = 0
            /\ UNCHANGED <<idx, cur, ctx, stats, sandbox_src, sandbox_pdf, last, ops>>
    /\ UNCHANGED <<config, gui, call, walk, source, collected, collect, merge_cfg, volumes, pass, file_list, is_running, reuse_process, error_records,
                   alive, engine, unscanned, target, failed_dir, now, kills, started, merged>>

\* the artifact-appearance poll, one step without the artifact
WaitPdf ==
    /\ pc = "waitpdf"
    /\ elapsed < current_pdf_wait(cur)
    /\ sandbox_pdf[cur.id] = 0
    /\ elapsed + 1 < current_pdf_wait(cur) \/ FaultAllowed
    /\ elapsed' = elapsed + 1
    /\ UNCHANGED <<config, gui, call, walk, ops, source, collected, collect, merge_cfg, volumes, pc, pass, file_list, idx, cur, ctx, is_running, reuse_process,
                   stats, error_records, alive, engine, unscanned, sandbox_src,
                   sandbox_pdf, target, failed_dir, now, kills, last, started, merged>>

\* the artifact is there: sleep 0.5 s, handle_file_conflict, success counted by run_batch
Place ==
    /\ pc = "waitpdf"
    /\ elapsed < current_pdf_wait(cur)
    /\ sandbox_pdf[cur.id] # 0
    /\ \E d \in 1..2, rm_ok \in BOOLEAN :
         LET dest == get_target_path(cur, IF ctx.is_price THEN "Price_" ELSE "")
             r == handle_file_conflict(target, sandbox_pdf[cur.id], cur.id, dest,
                                       now + d, rm_ok)
         IN  \* only a time-stamped name tells a longer delay from the 0.5 s sleep,
             \* only a same-size destination is removed
             /\ r.status # "ConflictBacked" => d = 1
             /\ r.status \notin {"Overwritten", "OverwriteFailed"} => rm_ok
             /\ now' = now + d
             /\ target' = r.target
             /\ last' = (LogEntry(cur, r.status, r.path))
    /\ stats' = Bump("success")
    /\ ops' = Did(finally_ops(cur.id))
    /\ sandbox_src' = CleanSrc(cur.id)
    /\ sandbox_pdf' = CleanPdf(cur.id)
    /\ NextIter
    /\ UNCHANGED <<config, gui, call, walk, source, collected, collect, merge_cfg, volumes, pass, file_list, is_running, reuse_process, error_records,
                   alive, engine, unscanned, failed_dir, kills, started, merged>>

\* the wait window is over without an artifact: Failed(artifact-not-produced)
WaitExpired ==
    /\ pc = "waitpdf"
    /\ elapsed >= current_pdf_wait(cur)
    /\ stats' = Bump("failed")
    /\ ops' = Did(finally_ops(cur.id) \cup quarantine_ops(cur.id))
    /\ sandbox_src' = CleanSrc(cur.id)
    /\ sandbox_pdf' = CleanPdf(cur.id)
    /\ IF ShouldQuarantine
       THEN \E d \in QuarantineDelays(cur) :
              /\ now' = now + d
              /\ failed_dir' = quarantine_failed_file(failed_dir, cur, now + d)
              /\ error_records' = Append(error_records, cur.src)
       ELSE UNCHANGED <<now, failed_dir, error_records>>
    /\ last' = (LogEntry(cur, "Failed", get_target_path(cur, "")))
    /\ NextIter
    /\ UNCHANGED <<config, gui, call, walk, source, collected, collect, merge_cfg, volumes, pass, file_list, is_running, reuse_process, alive, engine,
                   unscanned, target, kills, started, merged>>

Perms(S) ==
    { q \in [1..Cardinality(S) -> S] : \A x \in S : \E i \in 1..Cardinality(S) : q[i] = x }

AllZero == [i \in Ids |-> 0]

\* OfficeConverter(args.config, interactive=True) in the CLI entry;
\* GUIOfficeConverter(self.config_path) in the GUI worker, interactive left at its default
interactive == TRUE

\* a retry list that takes every file of the quarantine folder
retry_files_unfiltered(dir) == dir

\* run: the files of the quarantine folder that are no lock files and have an extension
\* of allowed_extensions
retry_files(dir) == { x \in dir : x.path.base # "~$a" /\ x.path.cat \in Cats }

\* run, once the retry is decided: cleanup_all_processes unless processes are reused, the
\* retry list read from the quarantine folder (os.listdir: any order), run_batch on it
\* and close_office_apps again; k: the kills issued and the engines left by this step
Retry(should_retry, k) ==
    \E q \in Perms(retry_files(failed_dir)) :
      LET k2 == IF reuse_process THEN k
                ELSE [kills |-> { [why |-> "retry", app |-> a] :
                                    a \in {"word", "excel", "ppt"} },
                      engine |-> k.engine]
      IN  IF should_retry
          THEN /\ kills' = k2.kills
               /\ engine' = k2.engine
               /\ IF q # <<>>
                  THEN /\ pass' = "retry"
                       /\ file_list' = q
                       /\ idx' = 1
                       /\ pc' = "top"
                  ELSE /\ pc' = "merge"
                       /\ UNCHANGED <<pass, file_list, idx>>
          ELSE /\ kills' = k.kills
               /\ engine' = k.engine
               /\ pc' = "merge"
               /\ UNCHANGED <<pass, file_list, idx>>

\* run after run_batch returned: close_office_apps, then in the initial pass the retry
\* decision, which waits for the operator in ask_retry_failed_files when files failed,
\* auto_retry_failed is off and the converter is interactive
AfterBatch ==
    /\ pc = "top"
    /\ BatchOver
    /\ LET k1 == close_office_apps("batch_end")
           failed_count == stats.failed + stats.timeout
       IN  IF pass = "initial"
           THEN \E auto_retry_failed \in BOOLEAN :
                  /\ failed_count = 0 => ~auto_retry_failed
                  /\ IF failed_count > 0 /\ ~auto_retry_failed /\ interactive
                     THEN /\ pc' = "ask_retry"
                          /\ kills' = k1.kills
                          /\ engine' = k1.engine
                          /\ UNCHANGED <<pass, file_list, idx>>
                     ELSE Retry(failed_count > 0 /\ auto_retry_failed, k1)
           ELSE /\ kills' = k1.kills
                /\ engine' = k1.engine
                /\ pc' = "merge"
                /\ UNCHANGED <<pass, file_list, idx>>
    /\ UNCHANGED <<config, gui, call, walk, ops, source, collected, collect, merge_cfg, volumes, cur, ctx, elapsed,
                   is_running, reuse_process, stats, error_records, alive, unscanned,
                   sandbox_src, sandbox_pdf, target, failed_dir, now, last, started, merged>>

\* ask_retry_failed_files returns: the operator's answer, or no answer within the countdown
AskRetry ==
    /\ pc = "ask_retry"
    /\ \E answer \in BOOLEAN : Retry(answer, [kills |-> kills, engine |-> engine])
    /\ UNCHANGED <<config, gui, call, walk, ops, source, collected, collect, merge_cfg, volumes, cur, ctx, elapsed,
                   is_running, reuse_process, stats, error_records, alive, unscanned,
                   sandbox_src, sandbox_pdf, target, failed_dir, now, last, started, merged>>

\* ---- merging: merge_pdfs ----

\* the categories dict of merge_pdfs, in its order
Categories == <<"Price_", "Word_", "Excel_", "PPT_", "PDF_">>

\* the order of path strings: files of the target folder itself before those of its
\* subfolders ("_" and lower-case letters come after the capitals of the prefixes), by
\* prefix, by base name, plain names before suffixed ones
DirRank(d) ==
    CASE d = "" -> 0
      [] d = "_FAILED_FILES" -> 1
      [] d = "_FAILED_FILES/old" -> 2
      [] d = "_MERGED" -> 3
      [] d = "_MERGED/old" -> 4
      [] OTHER -> 5
PrefixRank(x) ==
    CASE x = "Excel_" -> 1
      [] x = "Merged_" -> 2
      [] x = "Other_" -> 3
      [] x = "PDF_" -> 4
      [] x = "PPT_" -> 5
      [] x = "Price_" -> 6
      [] x = "Word_" -> 7
      [] OTHER -> 0
BaseRank(b) ==
    CASE b = "" -> 0
      [] b = "All" -> 1
      [] b = "Excel_" -> 2
      [] b = "PDF_" -> 3
      [] b = "PPT_" -> 4
      [] b = "Price_" -> 5
      [] b = "Word_" -> 6
      [] OTHER -> 7
PathKey(q) == <<DirRank(q.dir), PrefixRank(q.prefix), BaseRank(q.base), q.sfx, q.ts>>
PathLess(q1, q2) ==
    LET k1 == PathKey(q1)
        k2 == PathKey(q2)
    IN  \E i \in 1..Len(k1) : k1[i] < k2[i] /\ \A j \in 1..(i - 1) : k1[j] = k2[j]

\* the walk of the target folder: the files of a folder are passed over when the
\* folder's path equals the path of the quarantine folder or of the merge output folder
walk_pdfs(tgt) == { x \in tgt : x.path.dir \notin {"_FAILED_FILES", "_MERGED"} }

\* all_pdfs.sort()
RECURSIVE Sorted(_)
Sorted(S) ==
    IF S = {} THEN <<>>
    ELSE LET m == CHOOSE x \in S : \A y \in S \ {x} : PathLess(x.path, y.path)
         IN  <<m>> \o Sorted(S \ {m})

\* a packing that never closes a volume
PackAllInOne(files, groups, current_group, current_size, max) ==
    IF files = <<>> THEN groups ELSE Append(groups, files)

\* a packing that closes a volume after every file
PackSingles(files, groups, current_group, current_size, max) ==
    [i \in 1..Len(files) |-> <<files[i]>>]

\* the grouping loop of a category: files in order, groups closed so far, the open
\* group and its size
RECURSIVE Pack(_, _, _, _, _)
Pack(files, groups, current_group, current_size, max) ==
    IF files = <<>>
    THEN IF current_group # <<>> THEN Append(groups, current_group) ELSE groups
    ELSE LET f == Head(files)
         IN  IF f.size > max
             THEN Pack(Tail(files),
                       Append(IF current_group # <<>> THEN Append(groups, current_group)
                                                      ELSE groups, <<f>>),
                       <<>>, 0, max)
             ELSE IF current_size + f.size > max
             THEN Pack(Tail(files), Append(groups, current_group), <<f>>, f.size, max)
             ELSE Pack(Tail(files), groups, Append(current_group, f),
                       current_size + f.size, max)

\* a category filter that lets every artifact through
CategoryFilesAny(all_pdfs, prefix) == all_pdfs

\* the artifacts of a category: the base name starts with the prefix
CategoryFiles(all_pdfs, prefix) == SelectSeq(all_pdfs, LAMBDA x : x.path.prefix = prefix)

\* the volumes of the categories from the k-th on, each category's numbered from 1
RECURSIVE CategoryVolumes(_, _, _)
CategoryVolumes(all_pdfs, k, max) ==
    IF k > Len(Categories) THEN <<>>
    ELSE LET groups == Pack(CategoryFiles(all_pdfs, Categories[k]), <<>>, <<>>, 0, max)
         IN  [i \in 1..Len(groups) |->
                 [label |-> Categories[k], idx |-> i, members |-> groups[i]]]
               \o CategoryVolumes(all_pdfs, k + 1, max)

\* a combine-all merge that still splits by category
merge_pdfs_split_always(tgt, merge_mode, max) == CategoryVolumes(Sorted(tgt), 1, max)

\* merge_pdfs: the volumes planned, in order
merge_pdfs(tgt, merge_mode, max) ==
    LET all_pdfs == Sorted(walk_pdfs(tgt))
    IN  IF all_pdfs = <<>> THEN <<>>
        ELSE IF merge_mode = MERGE_MODE_ALL_IN_ONE
        THEN << [label |-> "All", idx |-> 1, members |-> all_pdfs] >>
        ELSE CategoryVolumes(all_pdfs, 1, max)

\* the size of a volume: the sizes of its members
RECURSIVE SumSizes(_)
SumSizes(members) ==
    IF members = <<>> THEN 0 ELSE Head(members).size + SumSizes(Tail(members))

\* the files merger.write leaves in the merge output folder: Merged_<label>_<timestamp>
\* with the volume's index
volume_files(vs, t) ==
    { [path |-> [dir |-> "_MERGED", prefix |-> "Merged_", base |-> vs[k].label,
                 sfx |-> vs[k].idx, ts |-> t],
       size |-> SumSizes(vs[k].members), by |-> 0] : k \in { l \in 1..Len(vs) : vs[l].ok } }

\* the sets of volumes, by position in the plan, whose assembly may raise
FailingVolumes(plan) ==
    { bad \in SUBSET (1..Len(plan)) : Cardinality(bad) <= MaxFailedVolumes }

\* an assembly loop that a raising volume ends
assemble_until_failure(plan, bad) ==
    LET n == IF bad = {} THEN Len(plan)
             ELSE CHOOSE k \in bad : \A l \in bad : k <= l
    IN  [k \in 1..n |->
            [label |-> plan[k].label, idx |-> plan[k].idx, members |-> plan[k].members,
             ok |-> k \notin bad]]

\* the assembly of the planned volumes, each in its own try block: the volumes
\* attempted, ok when PdfWriter wrote the file
assemble(plan, bad) ==
    [k \in 1..Len(plan) |->
        [label |-> plan[k].label, idx |-> plan[k].idx, members |-> plan[k].members,
         ok |-> k \notin bad]]

\* the options of the merge phase; an option the run never reads counts with its default
MergeOptions ==
    { o \in [enable_merge : BOOLEAN,
             merge_mode : {MERGE_MODE_CATEGORY, MERGE_MODE_ALL_IN_ONE},
             max_size : 1..MaxMergeSize] :
        LET unread == config.run_mode \notin {MODE_CONVERT_THEN_MERGE, MODE_MERGE_ONLY}
        IN  /\ unread => o.enable_merge
            /\ (unread \/ ~o.enable_merge) => o.merge_mode = MERGE_MODE_CATEGORY
            /\ (unread \/ ~o.enable_merge \/ o.merge_mode = MERGE_MODE_ALL_IN_ONE)
                  => o.max_size = MaxMergeSize }

\* ---- collect mode: collect_office_files_and_build_excel ----

\* the office files on the disk: those of the source folder and those collect mode wrote
OnDisk == source \cup { [path |-> c.path, size |-> c.size, hash |-> c.hash] : c \in collected }

IsPrefix(p, q) == Len(p) <= Len(q) /\ SubSeq(q, 1, Len(p)) = p

os_path_exists(p) == \E f \in OnDisk : f.path = p

FileOnDisk(p) == CHOOSE f \in OnDisk : f.path = p

\* the orders in which a file system may list the names S
RECURSIVE ListingOrders(_)
ListingOrders(S) ==
    IF S = {} THEN {<<>>}
    ELSE UNION { { <<x>> \o q : q \in ListingOrders(S \ {x}) } : x \in S }

\* the names a listing of the folders under the source root shows
NamesUnder(root) ==
    UNION { { f.path[i] : i \in (Len(root) + 1)..Len(f.path) } :
              f \in { g \in OnDisk : IsPrefix(root, g.path) } }

\* os.walk, top down: the files of a folder in listing order, then its subfolders in
\* listing order; ord is the order in which the file system lists names
RECURSIVE os_walk(_, _, _)
os_walk(root, ord, k) ==
    IF k > 2 * Len(ord) THEN <<>>
    ELSE IF k <= Len(ord)
    THEN LET p == Append(root, ord[k])
         IN  (IF os_path_exists(p)
              THEN <<[path |-> p, size |-> FileOnDisk(p).size]>> ELSE <<>>)
               \o os_walk(root, ord, k + 1)
    ELSE LET p == Append(root, ord[k - Len(ord)])
         IN  (IF \E f \in OnDisk : Len(f.path) > Len(p) /\ IsPrefix(p, f.path)
              THEN os_walk(p, ord, 1) ELSE <<>>)
               \o os_walk(root, ord, k + 1)

\* the keys of a dict filled with setdefault, in insertion order
RECURSIVE first_seen(_, _)
first_seen(keys, seen) ==
    IF keys = <<>> THEN <<>>
    ELSE IF Head(keys) \in seen THEN first_seen(Tail(keys), seen)
    ELSE <<Head(keys)>> \o first_seen(Tail(keys), seen \cup {Head(keys)})

hash_of_nothing(path) == 0

_compute_file_hash(path) == FileOnDisk(path).hash

\* os.path.relpath(src_path, source_root)
relpath(path, root) == SubSeq(path, Len(root) + 1, Len(path))

\* os.path.join(target_root, rel)
dst_path(src_path) == target_root \o relpath(src_path, source_root)

\* a keep record that loses its group
unique_record_ungrouped(group_id, src, size) ==
    [group_id |-> 0, src |-> src, dst |-> target_root \o SubSeq(src, 2, Len(src)),
     size |-> size, copied |-> FALSE]

\* group_id None is 0, "G<n>" is n
unique_record(group_id, src, size) ==
    [group_id |-> group_id, src |-> src, dst |-> dst_path(src), size |-> size,
     copied |-> FALSE]

\* the loop over hash_groups of one size group; keys: the hashes in insertion order
RECURSIVE hash_groups_loop(_, _, _, _)
hash_groups_loop(files, size, keys, st) ==
    IF keys = <<>> THEN st
    ELSE LET same_hash_files ==
                 SelectSeq(files, LAMBDA f : _compute_file_hash(f.path) = Head(keys))
             group_id == st.group_id_counter
             keep_src == same_hash_files[1].path
         IN  IF Len(same_hash_files) = 1
             THEN hash_groups_loop(files, size, Tail(keys),
                      [st EXCEPT !.unique_records = Append(@, unique_record(0, keep_src, size))])
             ELSE hash_groups_loop(files, size, Tail(keys),
                      [st EXCEPT
                         !.group_id_counter = @ + 1,
                         !.unique_records = Append(@, unique_record(group_id, keep_src, size)),
                         !.duplicate_records = @ \o
                            [i \in 1..(Len(same_hash_files) - 1) |->
                               [group_id |-> group_id, src |-> same_hash_files[i + 1].path,
                                size |-> size, keep_src |-> keep_src,
                                keep_dst |-> dst_path(keep_src)]]])

\* one iteration of the loop over size_groups
size_group_hashing_all(files, size, st) ==
    hash_groups_loop(files, size,
        first_seen([i \in 1..Len(files) |-> _compute_file_hash(files[i].path)], {}),
        [st EXCEPT !.hashed = @ \cup { files[i].path : i \in 1..Len(files) }])

\* a loop body that hashes the files of every size group
size_group_no_shortcut(files, size, st) == size_group_hashing_all(files, size, st)

size_group(files, size, st) ==
    IF Len(files) = 1
    THEN [st EXCEPT !.unique_records = Append(@, unique_record(0, files[1].path, size))]
    ELSE size_group_hashing_all(files, size, st)

\* run: os.startfile, removal of the sandbox
EndOfRun ==
    /\ sandbox_src' = {}
    /\ sandbox_pdf' = AllZero
    /\ pc' = "done"

\* the scan of the source folder and the partition into size_groups
CollectScan ==
    /\ pc = "collect"
    /\ \E ord \in ListingOrders(NamesUnder(source_root)) :
         LET all_files == os_walk(source_root, ord, 1)
         IN  IF Len(all_files) = 0
             THEN EndOfRun /\ UNCHANGED collect
             ELSE /\ collect' = [collect EXCEPT
                                   !.all_files = all_files,
                                   !.todo = first_seen([i \in 1..Len(all_files) |->
                                                          all_files[i].size], {})]
                  /\ pc' = "collect_group"
                  /\ UNCHANGED <<sandbox_src, sandbox_pdf>>
    /\ UNCHANGED <<config, gui, call, walk, ops, source, collected, merge_cfg, volumes, pass, file_list, idx,
                   cur, ctx, elapsed, is_running, reuse_process, stats, error_records, alive,
                   engine, unscanned, target, failed_dir, now, kills, last, started, merged>>

\* one iteration of the loop over size_groups
CollectGroup ==
    /\ pc = "collect_group"
    /\ collect.todo # <<>>
    /\ is_running
    /\ LET size == Head(collect.todo)
           files == SelectSeq(collect.all_files, LAMBDA f : f.size = size)
       IN  collect' = size_group(files, size, [collect EXCEPT !.todo = Tail(@)])
    /\ UNCHANGED <<config, gui, call, walk, ops, source, collected, merge_cfg, volumes, pc, pass, file_list,
                   idx, cur, ctx, elapsed, is_running, reuse_process, stats, error_records,
                   alive, engine, unscanned, sandbox_src, sandbox_pdf, target, failed_dir, now,
                   kills, last, started, merged>>

\* the loop over size_groups ends, by exhaustion or by the break on is_running
CollectGrouped ==
    /\ pc = "collect_group"
    /\ collect.todo = <<>> \/ ~is_running
    /\ pc' = "collect_copy"
    /\ UNCHANGED <<config, gui, call, walk, ops, source, collected, collect, merge_cfg, volumes, pass,
                   file_list, idx, cur, ctx, elapsed, is_running, reuse_process, stats,
                   error_records, alive, engine, unscanned, sandbox_src, sandbox_pdf, target,
                   failed_dir, now, kills, last, started, merged>>

\* a file written at a path replaces what the path held
written(dirset, file) == { c \in dirset : c.path # file.path } \cup {file}

\* the source file a collected file is a copy of
OriginOf(path) ==
    IF \E c \in collected : c.path = path /\ c.kind = "copy"
    THEN (CHOOSE c \in collected : c.path = path /\ c.kind = "copy").origin
    ELSE path

copy_always(rec) == TRUE

\* shutil.copy2 is called only if nothing exists at the destination
copy_needed(rec) == ~os_path_exists(rec.dst)

\* one iteration of the copy loop over unique_records
CollectCopy ==
    /\ pc = "collect_copy"
    /\ config.collect_mode = COLLECT_MODE_COPY_AND_INDEX
    /\ collect.copy_idx <= Len(collect.unique_records)
    /\ is_running
    /\ LET rec == collect.unique_records[collect.copy_idx]
           f == FileOnDisk(rec.src)
       IN  /\ collected' = IF copy_needed(rec)
                           THEN written(collected,
                                    [path |-> rec.dst, size |-> f.size, hash |-> f.hash,
                                     run |-> collect.run, origin |-> OriginOf(rec.src),
                                     kind |-> "copy"])
                           ELSE collected
           /\ collect' = [collect EXCEPT !.unique_records[collect.copy_idx].copied = TRUE,
                                         !.copied_count = @ + 1,
                                         !.copy_idx = @ + 1]
    /\ UNCHANGED <<config, gui, call, walk, ops, source, merge_cfg, volumes, pc, pass, file_list, idx, cur,
                   ctx, elapsed, is_running, reuse_process, stats, error_records, alive, engine,
                   unscanned, sandbox_src, sandbox_pdf, target, failed_dir, now, kills, last,
                   started, merged>>

\* office_index_<timestamp>.xlsx of the run
IndexName(run) == IF run = 1 THEN "i1" ELSE "i2"

\* the end of the copy loop (or no copy in mode index_only), the workbook saved under
\* the target folder, the end of run
CollectIndex ==
    /\ pc = "collect_copy"
    /\ \/ config.collect_mode # COLLECT_MODE_COPY_AND_INDEX
       \/ collect.copy_idx > Len(collect.unique_records)
       \/ ~is_running
    /\ LET excel_path == Append(target_root, IndexName(collect.run))
       IN  collected' = written(collected,
                            [path |-> excel_path, size |-> IndexSize, hash |-> 0,
                             run |-> collect.run, origin |-> excel_path, kind |-> "index"])
    /\ EndOfRun
    /\ UNCHANGED <<config, gui, call, walk, ops, source, collect, merge_cfg, volumes, pass, file_list, idx,
                   cur, ctx, elapsed, is_running, reuse_process, stats, error_records, alive,
                   engine, unscanned, target, failed_dir, now, kills, last, started, merged>>

\* the operator runs collect mode again over the same folders: a new converter
Rerun ==
    /\ pc \in {"done", "exited"}
    /\ config.run_mode = MODE_COLLECT_ONLY
    /\ collect.run < MaxRuns
    /\ pc' = "wizard"
    /\ is_running' = TRUE
    /\ reuse_process' = FALSE
    /\ kills' = {}
    /\ collect' = [NoCollect EXCEPT !.run = collect.run + 1]
    /\ UNCHANGED <<config, gui, call, walk, ops, source, collected, merge_cfg, volumes, pass, file_list, idx, cur,
                   ctx, elapsed, stats, error_records, alive, engine, unscanned, sandbox_src,
                   sandbox_pdf, target, failed_dir, now, last, started, merged>>

\* run: the merge phase when the mode includes it, the summary, removal of the sandbox
Finish ==
    /\ pc = "merge"
    /\ \E o \in MergeOptions :
         LET merging == /\ config.run_mode \in {MODE_CONVERT_THEN_MERGE, MODE_MERGE_ONLY}
                        /\ o.enable_merge
         IN  /\ merge_cfg' = o
             /\ merged' = merging
             /\ IF merging
                THEN \E bad \in FailingVolumes(merge_pdfs(target, o.merge_mode, o.max_size)) :
                       volumes' = volumes \o
                                    assemble(merge_pdfs(target, o.merge_mode, o.max_size), bad)
                ELSE volumes' = volumes
    /\ sandbox_src' = {}
    /\ sandbox_pdf' = AllZero
    /\ pc' = "done"
    /\ UNCHANGED <<config, gui, call, walk, ops, source, collected, collect, pass, file_list, idx, cur, ctx,
                   elapsed, is_running, reuse_process, stats, error_records, alive, engine,
                   unscanned, target, failed_dir, now, kills, last, started>>

\* OfficeGUI.stop_task while a converter is current: clears the keep-running flag
stop_task ==
    /\ config.frontend = "gui"
    /\ pc \notin {"wizard", "done", "exited"}
    /\ is_running
    /\ is_running' = FALSE
    /\ UNCHANGED <<config, gui, call, walk, ops, source, collected, collect, merge_cfg, volumes, pc, pass, file_list, idx, cur, ctx, elapsed, reuse_process,
                   stats, error_records, alive, engine, unscanned, sandbox_src, sandbox_pdf,
                   target, failed_dir, now, kills, last, started, merged>>

\* signal_handler (registered by the CLI's main thread): flag, cleanup, exit
signal_handler ==
    /\ config.frontend = "cli"
    /\ pc \notin {"done", "exited"}
    /\ is_running' = FALSE
    \* until select_run_mode of the wizard has run, run_mode holds the default of __init__
    /\ \E run_mode \in {config.run_mode} \cup
                        (IF pc = "wizard" THEN {MODE_CONVERT_THEN_MERGE} ELSE {}) :
         LET k == IF ~reuse_process /\ run_mode \notin {MODE_MERGE_ONLY, MODE_COLLECT_ONLY}
                  THEN cleanup_all_processes("signal")
                  ELSE [kills |-> kills, engine |-> engine]
         IN  kills' = k.kills /\ engine' = k.engine
    /\ sandbox_src' = {}
    /\ sandbox_pdf' = AllZero
    \* sys.exit: the process and its daemon threads are gone
    /\ pc' = "exited"
    /\ alive' = {}
    /\ unscanned' = {}
    /\ cur' = NoFile
    /\ ctx' = NoCtx
    /\ elapsed' = 0
    /\ UNCHANGED <<config, gui, call, walk, ops, source, collected, collect, merge_cfg, volumes, pass, file_list, idx, reuse_process, stats, error_records,
                   target, failed_dir, now, last, started, merged>>

\* ---- the conversion worker thread and the engine ----

Running == pc \notin {"done", "exited"}

\* convert_logic_in_thread, excel under a non-standard strategy: the content scan
WorkerScan(id) ==
    /\ Running
    /\ id \in unscanned
    /\ \E has_kw \in BOOLEAN :
         IF has_kw
         THEN /\ ctx' = IF cur.id = id THEN [ctx EXCEPT !.is_price = TRUE] ELSE ctx
              /\ UNCHANGED <<alive, engine>>
         ELSE IF config.content_strategy = STRATEGY_PRICE_ONLY
         THEN /\ ctx' = IF cur.id = id THEN [ctx EXCEPT !.scan_aborted = TRUE] ELSE ctx
              /\ alive' = alive \ {id}
              /\ engine' = [engine EXCEPT ![id] = "none"]
         ELSE UNCHANGED <<ctx, alive, engine>>
    /\ unscanned' = unscanned \ {id}
    \* scan_excel_content_in_thread reads the workbook opened from file_source
    /\ ops' = {Op(id, "scan", working_src(config.enable_sandbox))}
    /\ UNCHANGED <<config, gui, call, walk, source, collected, collect, merge_cfg, volumes, pc, pass, file_list, idx, cur, elapsed, is_running,
                   reuse_process, stats, error_records, sandbox_src, sandbox_pdf, target,
                   failed_dir, now, kills, last, started, merged>>

\* the worker thread ends (its engine call returned or raised). While the
\* orchestrator still attends the file the engine may write the artifact later; an
\* abandoned call's artifact, if any, is written by the time its thread ends.
WorkerFinish(id) ==
    /\ Running
    /\ id \in alive \ unscanned
    /\ alive' = alive \ {id}
    /\ IF id = cur.id
       THEN UNCHANGED <<engine, sandbox_pdf>>
       ELSE \E wrote \in BOOLEAN :
              /\ wrote => engine[id] # "none"
              /\ engine' = [engine EXCEPT ![id] = "none"]
              /\ sandbox_pdf' = IF wrote THEN [sandbox_pdf EXCEPT ![id] = 1] ELSE sandbox_pdf
    /\ UNCHANGED <<config, gui, call, walk, ops, source, collected, collect, merge_cfg, volumes, pc, pass, file_list, idx, cur, ctx, elapsed, is_running,
                   reuse_process, stats, error_records, unscanned, sandbox_src,
                   target, failed_dir, now, kills, last, started, merged>>

\* the engine writes the scratch artifact of the call it was given
EngineWrite(id) ==
    /\ Running
    /\ id \notin unscanned
    /\ engine[id] # "none"
    /\ id = cur.id \/ id \notin alive
    \* the size of an artifact nobody waits for is never read
    /\ \E s \in 1..MaxSize :
         /\ id # cur.id => s = 1
         /\ sandbox_pdf' = [sandbox_pdf EXCEPT ![id] = s]
    /\ engine' = [engine EXCEPT ![id] = "none"]
    /\ UNCHANGED <<config, gui, call, walk, ops, source, collected, collect, merge_cfg, volumes, pc, pass, file_list, idx, cur, ctx, elapsed, is_running,
                   reuse_process, stats, error_records, alive, unscanned, sandbox_src,
                   target, failed_dir, now, kills, last, started, merged>>

Next ==
    \/ Wizard
    \/ Scan
    \/ StartSkipEmpty
    \/ StartSkipType
    \/ StartPdf
    \/ StartThread
    \/ StartRaises
    \/ Poll
    \/ CheckTimedOut
    \/ CheckEnded
    \/ WaitPdf
    \/ Place
    \/ WaitExpired
    \/ AfterBatch
    \/ AskRetry
    \/ CollectScan
    \/ CollectGroup
    \/ CollectGrouped
    \/ CollectCopy
    \/ CollectIndex
    \/ Finish
    \/ stop_task
    \/ signal_handler
    \/ \E id \in Ids : WorkerScan(id)
    \/ \E id \in Ids : WorkerFinish(id)
    \/ \E id \in Ids : EngineWrite(id)

Spec == Init /\ [][Next]_vars

\* ---- scheduling ----

\* the orchestrator thread keeps executing the wait loops of the file at hand
Supervise == Poll \/ CheckTimedOut \/ CheckEnded \/ WaitPdf \/ Place \/ WaitExpired

\* while no further fault is allowed the worker of the file at hand and its engine
\* are ones that finish
InTime ==
    /\ ~FaultAllowed
    /\ \E id \in Ids :
         /\ id = cur.id
         /\ WorkerScan(id) \/ WorkerFinish(id) \/ EngineWrite(id)

FairSpec == Init /\ [][Next]_vars /\ WF_vars(Supervise) /\ WF_vars(InTime)

\* ---- collect runs: collect mode run again over the same folders ----

InitCollect == Init /\ config.run_mode = MODE_COLLECT_ONLY

\* the steps a run in collect mode can take, and the next run
NextCollect ==
    \/ Wizard
    \/ CollectScan
    \/ CollectGroup
    \/ CollectGrouped
    \/ CollectCopy
    \/ CollectIndex
    \/ stop_task
    \/ signal_handler
    \/ Rerun

CollectSpec == InitCollect /\ [][NextCollect]_vars

\* ---- placement runs: handle_file_conflict applied to successive artifacts ----

\* process_single_file up to the artifact wait, for a conversion that produced its
\* scratch artifact: the work item, its tag and the artifact's size
Arrive ==
    /\ pc = "top"
    /\ idx <= MaxPlacements
    /\ \E c \in Cats, b \in Bases, is_price \in BOOLEAN, s \in 1..MaxSize :
         LET f == [id |-> idx, src |-> idx, base |-> b, sfx |-> 0, cat |-> c,
                   kw |-> is_price, size |-> 1]
         IN  /\ cur' = f
             /\ ctx' = [is_price |-> is_price, scan_aborted |-> FALSE, skip_scan |-> is_price]
             /\ sandbox_pdf' = [sandbox_pdf EXCEPT ![f.id] = s]
             /\ started' = Append(started, f.id)
    /\ pc' = "waitpdf"
    /\ elapsed' = 0
    /\ UNCHANGED <<config, gui, call, walk, ops, source, collected, collect, merge_cfg, volumes, pass, file_list, idx, is_running, reuse_process, stats,
                   error_records, alive, engine, unscanned, sandbox_src, target,
                   failed_dir, now, kills, last, merged>>

InitPlace ==
    /\ config = BaseConfig
    /\ pc = "top"
    /\ pass = "initial"
    /\ file_list = <<>>
    /\ idx = 1
    /\ cur = NoFile
    /\ ctx = NoCtx
    /\ elapsed = 0
    /\ is_running = TRUE
    /\ reuse_process = FALSE
    /\ stats = [total |-> 0, success |-> 0, failed |-> 0, timeout |-> 0, skipped |-> 0]
    /\ error_records = <<>>
    /\ alive = {}
    /\ engine = [i \in Ids |-> "none"]
    /\ unscanned = {}
    /\ sandbox_src = {}
    /\ sandbox_pdf = AllZero
    /\ target = {}
    /\ failed_dir = {}
    /\ now = 0
    /\ kills = {}
    /\ last = NoOutcome
    /\ started = <<>>
    /\ merged = FALSE
    /\ merge_cfg = NoMerge
    /\ volumes = <<>>
    /\ source = {}
    /\ collected = {}
    /\ collect = NoCollect
    /\ call = NoCall
    /\ walk = NoWalk
    /\ ops = {}
    /\ gui = NoGui

NextPlace == Arrive \/ Place

PlaceSpec == InitPlace /\ [][NextPlace]_vars

\* ---- merge runs: merge_pdfs applied to a populated target folder ----

\* the paths a target folder may hold: one per prefix in the folder itself, backups
\* under conflicts, "Other_" for a file without a category prefix
MergePaths ==
    { [dir |-> d, prefix |-> x, base |-> "a", sfx |-> 0, ts |-> t] :
        d \in {"", "conflicts"}, t \in 0..1,
        x \in {"Price_", "Word_", "Excel_", "PPT_", "PDF_", "Other_"} }
      \ { q \in [dir : {""}, prefix : {"Price_", "Word_", "Excel_", "PPT_", "PDF_", "Other_"},
                 base : {"a"}, sfx : {0}, ts : {1}] : TRUE }

MergeInputs(paths) ==
    UNION { { { [path |-> q, size |-> sz[q], by |-> 0] : q \in Q } : sz \in [Q -> 1..MaxArtifactSize] } :
              Q \in { R \in SUBSET paths : Cardinality(R) <= MaxArtifacts } }

InitMerge ==
    /\ config = BaseConfig
    /\ pc = "merge"
    /\ pass = "initial"
    /\ file_list = <<>>
    /\ idx = 1
    /\ cur = NoFile
    /\ ctx = NoCtx
    /\ elapsed = 0
    /\ is_running = TRUE
    /\ reuse_process = FALSE
    /\ stats = [total |-> 0, success |-> 0, failed |-> 0, timeout |-> 0, skipped |-> 0]
    /\ error_records = <<>>
    /\ alive = {}
    /\ engine = [i \in Ids |-> "none"]
    /\ unscanned = {}
    /\ sandbox_src = {}
    /\ sandbox_pdf = AllZero
    /\ target \in MergeInputs(MergePaths)
    /\ failed_dir = {}
    /\ now = 0
    /\ kills = {}
    /\ last = NoOutcome
    /\ started = <<>>
    /\ merged = FALSE
    /\ merge_cfg = NoMerge
    /\ volumes = <<>>
    /\ source = {}
    /\ collected = {}
    /\ collect = NoCollect
    /\ call = NoCall
    /\ walk = NoWalk
    /\ ops = {}
    /\ gui = NoGui

NextMerge == Finish

MergeSpec == InitMerge /\ [][NextMerge]_vars

\* ---- merge runs, one after the other, over one target folder ----

\* the files the target folder may hold before the first run: two artifacts, a source
\* PDF moved to the quarantine folder, a volume of an earlier merge, and a copy of each
\* of the last two kept in a subfolder of its folder
RemergePaths ==
    { [dir |-> "", prefix |-> "Word_", base |-> "a", sfx |-> 0, ts |-> 0],
      [dir |-> "", prefix |-> "PDF_", base |-> "a", sfx |-> 0, ts |-> 0],
      [dir |-> "_FAILED_FILES", prefix |-> "Other_", base |-> "a", sfx |-> 0, ts |-> 0],
      [dir |-> "_FAILED_FILES/old", prefix |-> "Other_", base |-> "a", sfx |-> 0, ts |-> 0],
      [dir |-> "_MERGED", prefix |-> "Merged_", base |-> "All", sfx |-> 1, ts |-> 0],
      [dir |-> "_MERGED/old", prefix |-> "Merged_", base |-> "All", sfx |-> 1, ts |-> 0] }

InitRemerge ==
    /\ config = [BaseConfig EXCEPT !.run_mode = MODE_MERGE_ONLY]
    /\ pc = "merge"
    /\ pass = "initial"
    /\ file_list = <<>>
    /\ idx = 1
    /\ cur = NoFile
    /\ ctx = NoCtx
    /\ elapsed = 0
    /\ is_running = TRUE
    /\ reuse_process = FALSE
    /\ stats = [total |-> 0, success |-> 0, failed |-> 0, timeout |-> 0, skipped |-> 0]
    /\ error_records = <<>>
    /\ alive = {}
    /\ engine = [i \in Ids |-> "none"]
    /\ unscanned = {}
    /\ sandbox_src = {}
    /\ sandbox_pdf = AllZero
    /\ target \in MergeInputs(RemergePaths)
    /\ failed_dir = {}
    /\ now = 0
    /\ kills = {}
    /\ last = NoOutcome
    /\ started = <<>>
    /\ merged = FALSE
    /\ merge_cfg = NoMerge
    /\ volumes = <<>>
    /\ source = {}
    /\ collected = {}
    /\ collect = NoCollect
    /\ call = NoCall
    /\ walk = NoWalk
    /\ ops = {}
    /\ gui = NoGui

\* a run in merge-only mode: merge_pdfs over the target folder, the volumes it writes
\* added to the merge output folder under the run's timestamp
MergeRun ==
    /\ pc = "merge"
    /\ \E o \in MergeOptions :
         LET plan == IF o.enable_merge THEN merge_pdfs(target, o.merge_mode, o.max_size)
                                       ELSE <<>>
         IN  /\ merge_cfg' = o
             /\ merged' = o.enable_merge
             /\ \E bad \in FailingVolumes(plan) :
                  /\ volumes' = volumes \o assemble(plan, bad)
                  /\ target' = target \cup volume_files(assemble(plan, bad), now + 1)
    /\ now' = now + 1
    /\ pc' = "done"
    /\ UNCHANGED <<config, gui, call, walk, ops, source, collected, collect, pass, file_list, idx, cur,
                   ctx, elapsed, is_running, reuse_process, stats, error_records, alive,
                   engine, unscanned, sandbox_src, sandbox_pdf, failed_dir, kills, last,
                   started>>

\* the operator starts the program again in merge-only mode over the same target folder
MergeAgain ==
    /\ pc = "done"
    /\ now < MaxRuns
    /\ pc' = "merge"
    /\ merged' = FALSE
    /\ merge_cfg' = NoMerge
    /\ UNCHANGED <<config, gui, call, walk, ops, source, collected, collect, volumes, pass, file_list,
                   idx, cur, ctx, elapsed, is_running, reuse_process, stats, error_records,
                   alive, engine, unscanned, sandbox_src, sandbox_pdf, target, failed_dir,
                   now, kills, last, started>>

NextRemerge == MergeRun \/ MergeAgain

RemergeSpec == InitRemerge /\ [][NextRemerge]_vars

\* ---- the two scans of the source folder: run and collect_office_files_and_build_excel ----

\* the folders of a source tree, as paths below the source folder
ScanDirs == {<<>>, <<"sub">>, <<"temp">>, <<"sub", "temp">>}

\* the extension categories of allowed_extensions, and "other" for any other extension
ScanCats == {"word", "excel", "ppt", "pdf", "other"}

\* a file of the tree: its folder, whether its name starts with "~$", the category of
\* its extension, whether os.path.getsize succeeds on it
ScanFiles == [dir : ScanDirs, lock : BOOLEAN, cat : ScanCats, sized : BOOLEAN]

RECURSIVE SubsetsUpTo(_, _)
SubsetsUpTo(S, n) ==
    IF n = 0 THEN {{}}
    ELSE LET P == SubsetsUpTo(S, n - 1)
         IN  P \cup { q \cup {x} : q \in P, x \in S }

\* config["excluded_folders"]: entries without a separator are folder names, the others
\* are paths (here: below the source folder)
ExcludedEntries ==
    { [kind |-> "name", at |-> <<"temp">>], [kind |-> "path", at |-> <<"sub", "temp">>] }

\* the filter on dirs[:] in both walks: d is the name of a subfolder of root
excluded(excl, root, d) ==
    \/ \E e \in excl : e.kind = "name" /\ e.at = <<d>>
    \/ \E e \in excl : e.kind = "path" /\ e.at = Append(root, d)

\* a collect scan with the extensions and the size handling of the conversion scan
wanted_as_converted(f, mode) ==
    ~f.lock /\ f.cat \in {"word", "excel", "ppt", "pdf"}

\* the filter on file names: run takes every extension of allowed_extensions, collect
\* mode those of word, excel and powerpoint and only files whose size it can read
wanted(f, mode) ==
    /\ ~f.lock
    /\ IF mode = "convert"
       THEN f.cat \in {"word", "excel", "ppt", "pdf"}
       ELSE f.cat \in {"word", "excel", "ppt"} /\ f.sized

\* the order in which a folder lists its files
FileRank(f) ==
    (IF f.lock THEN 0 ELSE 10)
      + 2 * (CASE f.cat = "word" -> 0 [] f.cat = "excel" -> 1 [] f.cat = "ppt" -> 2
               [] f.cat = "pdf" -> 3 [] OTHER -> 4)
      + (IF f.sized THEN 0 ELSE 1)

RECURSIVE Listed(_)
Listed(S) ==
    IF S = {} THEN <<>>
    ELSE LET m == CHOOSE x \in S : \A y \in S : FileRank(x) <= FileRank(y)
         IN  <<m>> \o Listed(S \ {m})

\* the names of subfolders, in listing order
SubfolderNames == <<"sub", "temp">>

\* os.walk from root, top down with pruning of dirs: the wanted files of root, then the
\* walk of every subfolder that is not excluded
RECURSIVE scan_walk(_, _, _, _, _)
scan_walk(tree, excl, root, mode, k) ==
    IF k = 0
    THEN Listed({ f \in tree : f.dir = root /\ wanted(f, mode) })
           \o scan_walk(tree, excl, root, mode, 1)
    ELSE IF k > Len(SubfolderNames) THEN <<>>
    ELSE LET d == SubfolderNames[k]
             sub == Append(root, d)
         IN  (IF (\E f \in tree : IsPrefix(sub, f.dir)) /\ ~excluded(excl, root, d)
              THEN scan_walk(tree, excl, sub, mode, 0) ELSE <<>>)
               \o scan_walk(tree, excl, root, mode, k + 1)

\* run: the scan of a converting mode
RunScan ==
    /\ "convert" \notin walk.ran
    /\ walk' = [walk EXCEPT !.ran = @ \cup {"convert"},
                            !.files = scan_walk(walk.tree, walk.excluded_folders, <<>>,
                                                "convert", 0)]
    /\ UNCHANGED <<config, gui, call, ops, source, collected, collect, merge_cfg, volumes, pc, pass,
                   file_list, idx, cur, ctx, elapsed, is_running, reuse_process, stats,
                   error_records, alive, engine, unscanned, sandbox_src, sandbox_pdf, target,
                   failed_dir, now, kills, last, started, merged>>

\* collect_office_files_and_build_excel: the scan of collect mode
CollectWalk ==
    /\ "collect" \notin walk.ran
    /\ walk' = [walk EXCEPT !.ran = @ \cup {"collect"},
                            !.all_files = scan_walk(walk.tree, walk.excluded_folders, <<>>,
                                                    "collect", 0)]
    /\ UNCHANGED <<config, gui, call, ops, source, collected, collect, merge_cfg, volumes, pc, pass,
                   file_list, idx, cur, ctx, elapsed, is_running, reuse_process, stats,
                   error_records, alive, engine, unscanned, sandbox_src, sandbox_pdf, target,
                   failed_dir, now, kills, last, started, merged>>

\* a source tree of up to MaxTree files and a list of excluded folders
InitScan ==
    /\ config = BaseConfig
    /\ pc = "wizard"
    /\ pass = "initial"
    /\ file_list = <<>>
    /\ idx = 1
    /\ cur = NoFile
    /\ ctx = NoCtx
    /\ elapsed = 0
    /\ is_running = TRUE
    /\ reuse_process = FALSE
    /\ stats = [total |-> 0, success |-> 0, failed |-> 0, timeout |-> 0, skipped |-> 0]
    /\ error_records = <<>>
    /\ alive = {}
    /\ engine = [i \in Ids |-> "none"]
    /\ unscanned = {}
    /\ sandbox_src = {}
    /\ sandbox_pdf = AllZero
    /\ target = {}
    /\ failed_dir = {}
    /\ now = 0
    /\ kills = {}
    /\ last = NoOutcome
    /\ started = <<>>
    /\ merged = FALSE
    /\ merge_cfg = NoMerge
    /\ volumes = <<>>
    /\ source = {}
    /\ collected = {}
    /\ collect = NoCollect
    /\ call = NoCall
    /\ \E tree \in SubsetsUpTo(ScanFiles, MaxTree), excl \in SUBSET ExcludedEntries :
         walk = [NoWalk EXCEPT !.tree = tree, !.excluded_folders = excl]
    /\ ops = {}
    /\ gui = NoGui

NextScan == RunScan \/ CollectWalk

ScanSpec == InitScan /\ [][NextScan]_vars

\* ---- the engine-call helper: _safe_exec, run by a conversion worker thread ----

\* the default of the keyword argument retries, which every caller leaves alone
retries == 3

\* what one call of the wrapped engine operation does: it returns, raises a com_error
\* with hresult ERR_RPC_SERVER_BUSY, raises another com_error, raises another exception
Outcomes == {"returns", "server_busy", "com_error", "exception"}

\* random.randint(2, 5)
BusyBackoff == 2..5

\* continue: the next value of range(retries + 1), or the end of the loop, after which
\* the function ends without a return statement
loop_continue(c) ==
    IF c.attempt < retries
    THEN [c EXCEPT !.attempt = @ + 1]
    ELSE [c EXCEPT !.attempt = @ + 1, !.result = "returned_none"]

\* the try statement of one iteration: the call of func and the except clauses
safe_exec_try(c, outcome, secs) ==
    LET called == [c EXCEPT !.calls = @ + 1,
                            !.errors = IF outcome = "returns" THEN @ ELSE Append(@, outcome)]
    IN  IF outcome = "returns" THEN [called EXCEPT !.result = "returned"]
        ELSE IF outcome = "server_busy"
        THEN loop_continue([called EXCEPT !.slept = Append(@, secs)])
        ELSE IF c.attempt < retries
        THEN loop_continue([called EXCEPT !.slept = Append(@, 1)])
        ELSE [called EXCEPT !.result = "raised"]

\* one iteration of the for loop of _safe_exec
SafeExecAttempt ==
    /\ call.result = "running"
    /\ IF ~is_running
       THEN call' = [call EXCEPT !.result = "raised"]
       ELSE \E outcome \in Outcomes, secs \in BusyBackoff :
              \* the random number is drawn for a busy server only
              /\ outcome # "server_busy" => secs = 2
              /\ call' = safe_exec_try(call, outcome, secs)
    /\ UNCHANGED <<config, gui, walk, ops, source, collected, collect, merge_cfg, volumes, pc, pass,
                   file_list, idx, cur, ctx, elapsed, is_running, reuse_process, stats,
                   error_records, alive, engine, unscanned, sandbox_src, sandbox_pdf, target,
                   failed_dir, now, kills, last, started, merged>>

\* a GUI run polling the worker of its one file, a document; the worker enters _safe_exec
InitSafeExec ==
    /\ config = [BaseConfig EXCEPT !.frontend = "gui"]
    /\ pc = "poll"
    /\ pass = "initial"
    /\ file_list = <<Scanned(1)>>
    /\ idx = 1
    /\ cur = [id |-> 1, src |-> 1, base |-> "a", sfx |-> 0, cat |-> "word", kw |-> FALSE,
              size |-> 1]
    /\ ctx = NoCtx
    /\ elapsed = 0
    /\ is_running = TRUE
    /\ reuse_process = FALSE
    /\ stats = [total |-> 1, success |-> 0, failed |-> 0, timeout |-> 0, skipped |-> 0]
    /\ error_records = <<>>
    /\ alive = {1}
    /\ engine = [i \in Ids |-> IF i = 1 THEN "word" ELSE "none"]
    /\ unscanned = {}
    /\ sandbox_src = {1}
    /\ sandbox_pdf = AllZero
    /\ target = {}
    /\ failed_dir = {}
    /\ now = 0
    /\ kills = {}
    /\ last = NoOutcome
    /\ started = <<1>>
    /\ merged = FALSE
    /\ merge_cfg = NoMerge
    /\ volumes = <<>>
    /\ source = {}
    /\ collected = {}
    /\ collect = NoCollect
    /\ call = [NoCall EXCEPT !.result = "running"]
    /\ walk = NoWalk
    /\ ops = {}
    /\ gui = NoGui

NextSafeExec == SafeExecAttempt \/ stop_task

SafeExecSpec == InitSafeExec /\ [][NextSafeExec]_vars

\* ---- the GUI: start_task, its worker thread, stop_task ----

\* a liveness test that no thread passes
never_alive(at, w) == FALSE

\* worker_thread.is_alive(): the thread has been started and has not left worker()
is_alive(at, w) == w # 0 /\ at[w] \in {"begin", "run"}

\* OfficeGUI.start_task (Tk main thread, the folders being set): refused with a message
\* while the worker thread is alive, else a new worker thread is started
start_task ==
    /\ gui.stop_pc = "idle"
    /\ IF gui.worker_thread # 0 /\ is_alive(gui.at, gui.worker_thread)
       THEN gui' = [gui EXCEPT !.refused = TRUE]
       ELSE /\ gui.worker_thread < MaxRuns
            /\ gui' = [gui EXCEPT !.stop_requested = FALSE,
                                  !.worker_thread = @ + 1,
                                  !.at[gui.worker_thread + 1] = "begin"]
    /\ UNCHANGED <<config, pc, is_running, reuse_process, kills, merged, merge_cfg,
                   pass, file_list, idx, cur, ctx, elapsed, stats, error_records, alive, engine,
                   unscanned, sandbox_src, sandbox_pdf, target, failed_dir, now, last, started,
                   volumes, source, collected, collect, call, walk, ops>>

\* worker(): a new converter is built and published as current_converter
worker_begin(w) ==
    /\ gui.at[w] = "begin"
    /\ gui' = [gui EXCEPT !.at[w] = "run", !.current_converter = w]
    /\ pc' = "wizard"
    /\ is_running' = TRUE
    /\ reuse_process' = FALSE
    /\ kills' = {}
    /\ merged' = FALSE
    /\ merge_cfg' = NoMerge
    /\ UNCHANGED <<config, pass, file_list, idx, cur, ctx, elapsed, stats, error_records, alive, engine,
                   unscanned, sandbox_src, sandbox_pdf, target, failed_dir, now, last, started,
                   volumes, source, collected, collect, call, walk, ops>>

\* worker(): converter.run() in merge-only mode
worker_run ==
    /\ \E w \in 1..MaxRuns : gui.at[w] = "run"
    /\ Wizard \/ Finish

\* worker(): run has returned; the finally clause resets current_converter and
\* stop_requested, and the thread ends
worker_finally(w) ==
    /\ gui.at[w] = "run"
    /\ pc = "done"
    /\ gui' = [gui EXCEPT !.at[w] = "ended", !.current_converter = 0,
                          !.stop_requested = FALSE]
    /\ UNCHANGED <<config, pc, is_running, reuse_process, kills, merged, merge_cfg,
                   pass, file_list, idx, cur, ctx, elapsed, stats, error_records, alive, engine,
                   unscanned, sandbox_src, sandbox_pdf, target, failed_dir, now, last, started,
                   volumes, source, collected, collect, call, walk, ops>>

\* OfficeGUI.stop_task up to its question: returns when current_converter is None, else
\* opens the modal yes/no dialog
stop_task_ask ==
    /\ gui.stop_pc = "idle"
    /\ gui.current_converter # 0
    /\ gui' = [gui EXCEPT !.stop_pc = "asked"]
    /\ UNCHANGED <<config, pc, is_running, reuse_process, kills, merged, merge_cfg,
                   pass, file_list, idx, cur, ctx, elapsed, stats, error_records, alive, engine,
                   unscanned, sandbox_src, sandbox_pdf, target, failed_dir, now, last, started,
                   volumes, source, collected, collect, call, walk, ops>>

\* OfficeGUI.stop_task after the dialog: on yes stop_requested is set and is_running of
\* current_converter is written; the attribute access raises when it is None by then
stop_task_answer ==
    /\ gui.stop_pc = "asked"
    /\ \E yes \in BOOLEAN :
         IF ~yes
         THEN gui' = [gui EXCEPT !.stop_pc = "idle"] /\ UNCHANGED is_running
         ELSE IF gui.current_converter = 0
         THEN /\ gui' = [gui EXCEPT !.stop_pc = "idle", !.stop_requested = TRUE,
                                    !.error = "AttributeError"]
              /\ UNCHANGED is_running
         ELSE /\ gui' = [gui EXCEPT !.stop_pc = "idle", !.stop_requested = TRUE]
              /\ is_running' = FALSE
    /\ UNCHANGED <<config, pc, reuse_process, kills, merged, merge_cfg,
                   pass, file_list, idx, cur, ctx, elapsed, stats, error_records, alive, engine,
                   unscanned, sandbox_src, sandbox_pdf, target, failed_dir, now, last, started,
                   volumes, source, collected, collect, call, walk, ops>>

\* the GUI is open, in merge-only mode, no task started yet
InitGui ==
    /\ config = [BaseConfig EXCEPT !.frontend = "gui", !.run_mode = MODE_MERGE_ONLY]
    /\ pc = "wizard"
    /\ pass = "initial"
    /\ file_list = <<>>
    /\ idx = 1
    /\ cur = NoFile
    /\ ctx = NoCtx
    /\ elapsed = 0
    /\ is_running = TRUE
    /\ reuse_process = FALSE
    /\ stats = [total |-> 0, success |-> 0, failed |-> 0, timeout |-> 0, skipped |-> 0]
    /\ error_records = <<>>
    /\ alive = {}
    /\ engine = [i \in Ids |-> "none"]
    /\ unscanned = {}
    /\ sandbox_src = {}
    /\ sandbox_pdf = AllZero
    /\ target \in SeedTargets
    /\ failed_dir = {}
    /\ now = 0
    /\ kills = {}
    /\ last = NoOutcome
    /\ started = <<>>
    /\ merged = FALSE
    /\ merge_cfg = NoMerge
    /\ volumes = <<>>
    /\ source = {}
    /\ collected = {}
    /\ collect = NoCollect
    /\ call = NoCall
    /\ walk = NoWalk
    /\ ops = {}
    /\ gui = NoGui

NextGui ==
    \/ start_task
    \/ \E w \in 1..MaxRuns : worker_begin(w)
    \/ worker_run
    \/ \E w \in 1..MaxRuns : worker_finally(w)
    \/ stop_task_ask
    \/ stop_task_answer

GuiSpec == InitGui /\ [][NextGui]_vars

\* ---- properties ----

\* the orchestrator resolves the file at hand in this step
Resolves == idx' = idx + 1

\* the step is the placement of the scratch artifact of the file at hand
Places == pc = "waitpdf" /\ Resolves /\ stats'.success = stats.success + 1

\* C1: at every point of a run at most one conversion worker thread is alive, a
\* worker abandoned after a timeout included.
C1_AtMostOneWorker == Cardinality(alive) <= 1

C3_KeepNeverKills ==
    [][ /\ config.kill_process_mode = KILL_MODE_KEEP =>
             \A k \in kills' : k.why \notin {"timeout", "batch_end", "retry"}
        /\ (config.kill_process_mode # KILL_MODE_KEEP
              /\ pc = "joined" /\ Resolves /\ last'.out = "TimedOut")
             => [why |-> "timeout", app |-> cur.cat] \in kills' ]_vars

\* C4: a placement has exactly three outcomes: destination absent -> Succeeded, the
\* artifact at the destination; present with the same size -> Overwritten, the
\* artifact in its place; present with another size -> ConflictBacked, the artifact
\* under conflicts at a path that is neither the destination nor an earlier backup.
C4_ThreeOutcomes ==
    [][ Places =>
          LET dest == get_target_path(cur, IF ctx.is_price THEN "Price_" ELSE "")
              art == [size |-> sandbox_pdf[cur.id], by |-> cur.id]
              placed(q) == \E x \in target' :
                             x.path = q /\ x.size = art.size /\ x.by = art.by
          IN  IF ~Exists(target, dest)
              THEN last'.out = "Succeeded" /\ last'.path = dest /\ placed(dest)
              ELSE IF FileAt(target, dest).size = art.size
              THEN last'.out = "Overwritten" /\ last'.path = dest /\ placed(dest)
              ELSE /\ last'.out = "ConflictBacked"
                   /\ last'.path.dir = "conflicts"
                   /\ last'.path # dest
                   /\ ~Exists(target, last'.path)
                   /\ placed(last'.path) ]_vars

\* C5: when the destination exists with another size, the placement leaves the file
\* at the destination as it was and only adds a file under conflicts.
C5_ConflictOnlyAdds ==
    [][ Places =>
          LET dest == get_target_path(cur, IF ctx.is_price THEN "Price_" ELSE "")
          IN  (Exists(target, dest) /\ FileAt(target, dest).size # sandbox_pdf[cur.id])
                => /\ FileAt(target', dest) = FileAt(target, dest)
                   /\ \E x \in target' \ target :
                        /\ x.path.dir = "conflicts"
                        /\ target' = target \cup {x} ]_vars

StartedInOrder(n1, n2) ==
    [i \in 1..(n1 + n2) |-> IF i <= n1 THEN Id("initial", i) ELSE Id("retry", i - n1)]

\* C8: no outcome of a file aborts the batch: as long as the keep-running flag is
\* true, the files started are those of the list up to the loop position, in list
\* order, and a batch that is over has started every file of its list.
C8_EveryFileStarted ==
    is_running =>
      LET pos == IF pc \in {"poll", "joined", "waitpdf"} THEN idx ELSE idx - 1
      IN  /\ started = IF pass = "initial" THEN StartedInOrder(pos, 0)
                       ELSE StartedInOrder(stats.total, pos)
          /\ pc \in {"merge", "done"} => pos = Len(file_list)

C8_Witness ==
    /\ is_running
    /\ pc = "done"
    /\ pass = "retry"
    /\ stats.timeout + stats.failed = 2
    /\ started = StartedInOrder(MaxFiles, 1)

\* C9: once the keep-running flag is false at the top of a per-file iteration it
\* stays false and no further file is started: the list of started files, the
\* counters, the sandbox copies and the worker threads get nothing new.
C9_NoStartAfterStop ==
    [][ (~is_running /\ pc \in {"top", "merge", "done"}) =>
          /\ ~is_running'
          /\ started' = started
          /\ stats' = stats
          /\ sandbox_src' \subseteq sandbox_src
          /\ alive' \subseteq alive ]_vars

C9_Witness ==
    /\ ~is_running
    /\ pc = "done"
    /\ stats.total = MaxFiles
    /\ Len(started) = 1

C11_ArtifactNotProduced ==
    [][ (pc = "waitpdf" /\ pc' \notin {"waitpdf", "exited"}) =>
          /\ cur.id \notin alive
          /\ Resolves
          /\ IF elapsed >= (IF cur.cat = "ppt" THEN PptWaitTicks ELSE WaitTicks)
             THEN /\ last'.id = cur.id
                  /\ last'.out = "Failed"
                  /\ stats' = [stats EXCEPT !.failed = @ + 1]
                  /\ target' = target
             ELSE /\ sandbox_pdf[cur.id] # 0
                  /\ last'.out # "Failed"
                  /\ stats' = [stats EXCEPT !.success = @ + 1] ]_vars

C11_Witness ==
    /\ last.out = "Failed"
    /\ last.cat = "ppt"
    /\ last.pass = "initial"
    /\ stats.failed = 1
    /\ stats.success = 0
    /\ target = {}

\* a category-split merge has run
SplitDone == pc = "done" /\ merged /\ merge_cfg.merge_mode = MERGE_MODE_CATEGORY

\* a combine-all merge has run
AllInOneDone == pc = "done" /\ merged /\ merge_cfg.merge_mode = MERGE_MODE_ALL_IN_ONE

\* the members of the volumes labelled x, concatenated in the order written
RECURSIVE MembersOf(_, _)
MembersOf(vs, x) ==
    IF vs = <<>> THEN <<>>
    ELSE (IF Head(vs).label = x THEN Head(vs).members ELSE <<>>) \o MembersOf(Tail(vs), x)

\* the sequence holds exactly the artifacts of S, each once, in ascending path order
IsSortedListOf(q, S) ==
    /\ Len(q) = Cardinality(S)
    /\ { q[i] : i \in 1..Len(q) } = S
    /\ \A i, j \in 1..Len(q) : i < j => PathLess(q[i].path, q[j].path)

\* C12: in a category-split merge every volume of two or more members has a sum of
\* member sizes of at most the configured maximum, and an artifact larger than the
\* maximum is the only member of its volume.
C12_VolumeSizes ==
    SplitDone =>
      \A k \in 1..Len(volumes) :
        LET v == volumes[k]
        IN  /\ Len(v.members) >= 2 => SumSizes(v.members) <= merge_cfg.max_size
            /\ \A i \in 1..Len(v.members) :
                 v.members[i].size > merge_cfg.max_size => Len(v.members) = 1

C12_Witness ==
    /\ SplitDone
    /\ \E k, l \in 1..Len(volumes) :
         /\ volumes[k].label = volumes[l].label
         /\ Len(volumes[k].members) = 2
         /\ SumSizes(volumes[k].members) = merge_cfg.max_size
         /\ Len(volumes[l].members) = 1
         /\ volumes[l].members[1].size > merge_cfg.max_size

OversizeSingleton(v) == Len(v.members) = 1 /\ v.members[1].size > merge_cfg.max_size

\* C27: category-split packing is greedy: for every two consecutive volumes of a
\* category where the later one starts with an artifact not larger than the maximum
\* and the earlier one is not an oversize singleton, the size of the earlier volume
\* plus the size of the later volume's first artifact exceeds the maximum.
C27_GreedyPacking ==
    SplitDone =>
      \A k \in 1..(Len(volumes) - 1) :
        (/\ volumes[k].label = volumes[k + 1].label
         /\ volumes[k + 1].members[1].size <= merge_cfg.max_size
         /\ ~OversizeSingleton(volumes[k]))
          => SumSizes(volumes[k].members) + volumes[k + 1].members[1].size
               > merge_cfg.max_size

\* sizes 2, 2, 1 with maximum 3: volumes [2] and [2, 1]
C27_Witness ==
    /\ SplitDone
    /\ merge_cfg.max_size = 3
    /\ Len(volumes) = 2
    /\ volumes[1].label = volumes[2].label
    /\ Len(volumes[1].members) = 1
    /\ volumes[1].members[1].size = 2
    /\ Len(volumes[2].members) = 2
    /\ volumes[2].members[1].size = 2
    /\ volumes[2].members[2].size = 1

\* the volumes attempted, without the outcome of the assembly
Attempted ==
    [k \in 1..Len(volumes) |->
        [label |-> volumes[k].label, idx |-> volumes[k].idx, members |-> volumes[k].members]]

\* C29: in a category-split merge where the assembly of a volume failed, every volume
\* of the plan is still attempted, the other volumes of the same category and the
\* volumes of the remaining categories included, each with its planned label, index
\* and members.
C29_FailureDoesNotAbort ==
    (SplitDone /\ \E k \in 1..Len(volumes) : ~volumes[k].ok) =>
      /\ Attempted = CategoryVolumes(Sorted(target), 1, merge_cfg.max_size)
      /\ \A c \in 1..Len(Categories) :
           IsSortedListOf(MembersOf(volumes, Categories[c]),
                          { x \in target : x.path.prefix = Categories[c] })

\* the first volume of a category fails; its second volume and the volume of a later
\* category are written
C29_Witness ==
    /\ SplitDone
    /\ Len(volumes) = 3
    /\ ~volumes[1].ok
    /\ volumes[2].label = volumes[1].label /\ volumes[2].idx = 2 /\ volumes[2].ok
    /\ volumes[3].label # volumes[1].label /\ volumes[3].idx = 1 /\ volumes[3].ok

\* no member of a volume lies in one of the folders
MembersOutside(dirs) ==
    \A k \in 1..Len(volumes) : \A i \in 1..Len(volumes[k].members) :
      volumes[k].members[i].path.dir \notin dirs

\* C28: no file located in the quarantine folder or in the merge output folder, in the
\* folder itself or in a subfolder of it, is a member of a volume of any of the merge
\* runs over the target folder.
C28_NeverRemerged ==
    /\ MembersOutside({"_FAILED_FILES", "_MERGED"})
    /\ MembersOutside({"_FAILED_FILES/old", "_MERGED/old"})

\* ---- collect mode ----

\* the scanned files with the contents they have on the disk
ScannedFiles == { FileOnDisk(collect.all_files[i].path) : i \in DOMAIN collect.all_files }

\* the size groups the loop over size_groups has dealt with
Grouped(f) == \A i \in DOMAIN collect.todo : collect.todo[i] # f.size

\* the loop over size_groups ran to its end
AllGrouped == collect.all_files # <<>> /\ collect.todo = <<>>

UniqueOf(path) ==
    { i \in DOMAIN collect.unique_records : collect.unique_records[i].src = path }

DuplicateOf(path) ==
    { i \in DOMAIN collect.duplicate_records : collect.duplicate_records[i].src = path }

\* the group ids recorded with a file, 0 for none
GroupIds(path) ==
    { collect.unique_records[i].group_id : i \in UniqueOf(path) }
      \cup { collect.duplicate_records[i].group_id : i \in DuplicateOf(path) }

RecordedDuplicate(path, keep) ==
    \E i \in DuplicateOf(path) : collect.duplicate_records[i].keep_src = keep

C16_OneRecordPerFile ==
    AllGrouped =>
      /\ \A f \in ScannedFiles :
            Cardinality(UniqueOf(f.path)) + Cardinality(DuplicateOf(f.path)) = 1
      /\ Len(collect.unique_records) + Len(collect.duplicate_records)
            = Len(collect.all_files)
      /\ Len(collect.unique_records)
            = Cardinality({ <<f.size, f.hash>> : f \in ScannedFiles })
      /\ \A f \in ScannedFiles :
            (\A g \in ScannedFiles : g.size = f.size => g = f) =>
              /\ UniqueOf(f.path) # {}
              /\ GroupIds(f.path) = {0}
              /\ f.path \notin collect.hashed

\* scenario A: two files of one size and content, a third of another size
C16_Witness ==
    /\ pc = "done"
    /\ is_running
    /\ AllGrouped
    /\ Len(collect.all_files) = 3
    /\ Len(collect.unique_records) = 2
    /\ Len(collect.duplicate_records) = 1
    /\ Cardinality(collect.hashed) = 2

\* the position of a path in the scan's list
PosOf(path) == CHOOSE i \in DOMAIN collect.all_files : collect.all_files[i].path = path

\* the scanned files of the (size, hash) class of a path, as positions of the list
ClassOf(path) ==
    { j \in DOMAIN collect.all_files :
        /\ collect.all_files[j].size = FileOnDisk(path).size
        /\ FileOnDisk(collect.all_files[j].path).hash = FileOnDisk(path).hash }

\* the keep records: the unique records that carry a group id
KeepRecords == { k \in DOMAIN collect.unique_records : collect.unique_records[k].group_id # 0 }

\* C26: in every duplicate group the keep record is the file that comes first in the
\* scan's list among the files of its (size, hash) class and the group has at least one
\* duplicate record; every duplicate record carries the id of a group and the source
\* and destination path of that group's keep record, which precedes it in the list;
\* and no two keep records carry the same group id.
C26_KeepIsFirst ==
    /\ \A k \in KeepRecords :
         LET keep == collect.unique_records[k]
         IN  /\ \A j \in ClassOf(keep.src) : PosOf(keep.src) <= j
             /\ \E i \in DOMAIN collect.duplicate_records :
                  collect.duplicate_records[i].group_id = keep.group_id
             /\ \A l \in KeepRecords : l # k =>
                  collect.unique_records[l].group_id # keep.group_id
    /\ \A i \in DOMAIN collect.duplicate_records :
         LET dup == collect.duplicate_records[i]
         IN  \E k \in KeepRecords :
               LET keep == collect.unique_records[k]
               IN  /\ keep.group_id = dup.group_id
                   /\ dup.keep_src = keep.src
                   /\ dup.keep_dst = keep.dst
                   /\ PosOf(keep.src) < PosOf(dup.src)
                   /\ PosOf(dup.src) \in ClassOf(keep.src)

\* four files of one size and two contents, each content twice: two groups
C26_Witness ==
    /\ pc = "done"
    /\ Len(collect.all_files) = 4
    /\ Cardinality(KeepRecords) = 2
    /\ Len(collect.duplicate_records) = 2
    /\ collect.duplicate_records[1].group_id # collect.duplicate_records[2].group_id
    /\ PosOf(collect.duplicate_records[2].keep_src) > 1

\* a file that collect mode copied stays as it was written
NoOverwrite == \A c \in collected : c.kind = "copy" => c \in collected'

\* no two files under the target root are copies of the same source file
NoSecondCopy ==
    \A c1, c2 \in collected :
      (c1.kind = "copy" /\ c2.kind = "copy" /\ c1.origin = c2.origin) => c1 = c2

\* C17: collect mode with copying run again over the same source and target folder
\* overwrites no file an earlier run copied, and makes no second copy of a source file
\* under the target root.
C17_CopyIdempotent == [][NoOverwrite]_vars /\ []NoSecondCopy

\* ---- run modes ----

\* no file was scanned for conversion and no per-file iteration was begun
NothingConverted ==
    /\ file_list = <<>>
    /\ started = <<>>
    /\ alive = {}
    /\ sandbox_src = {}
    /\ stats = [total |-> 0, success |-> 0, failed |-> 0, timeout |-> 0, skipped |-> 0]

NothingMerged == ~merged /\ volumes = <<>>

NothingCollected == collect = NoCollect /\ collected = {}

\* C18: the run modes exclude each other in their effects: a collect-only run converts
\* nothing, merges nothing and, once its mode is selected, issues no force-termination
\* of an engine process; a merge-only run scans and converts nothing; a convert-only
\* run writes no merged volume; and no run both collects and converts.
C18_ModesExclusive ==
    /\ [](config.run_mode = MODE_COLLECT_ONLY => NothingConverted /\ NothingMerged)
    /\ [][(config.run_mode = MODE_COLLECT_ONLY /\ pc # "wizard") => kills' = kills]_vars
    /\ [](config.run_mode = MODE_MERGE_ONLY => NothingConverted /\ pc # "scan")
    /\ [](config.run_mode = MODE_CONVERT_ONLY => NothingMerged)
    /\ [](NothingConverted \/ NothingCollected)
    /\ [](config.run_mode # MODE_COLLECT_ONLY => NothingCollected)

\* a collect-only run that copied two files and ended, with engine processes untouched
C18_Witness ==
    /\ config.run_mode = MODE_COLLECT_ONLY
    /\ pc = "done"
    /\ Cardinality(collected) = 3
    /\ kills = {}
    /\ NothingConverted
    /\ NothingMerged

\* C19: a run started from the GUI never waits at a console prompt: the converter of
\* the GUI worker reaches neither the wizard's questions nor the retry prompt of
\* ask_retry_failed_files, whatever the run mode and however many files failed.
C19_GuiNeverPrompts == config.frontend = "gui" => pc # "ask_retry"

\* the step counts exactly one outcome, by exactly 1
CountsOne ==
    \E c \in {"success", "failed", "timeout", "skipped"} :
      stats' = [stats EXCEPT ![c] = @ + 1]

\* C20: every per-file iteration of a pass, however it ends and whatever error the
\* processing of the file raises, increments exactly one of the counters success,
\* failed, timeout, skipped, by exactly 1.
C20_OneOutcomePerFile == [][Resolves => CountsOne]_vars

\* ---- the engine-call helper ----

\* one invocation calls the wrapped operation at most retries + 1 times
AtMostRetriesPlusOne == call.calls <= retries + 1

\* the i-th backoff follows the i-th error: 2 to 5 seconds after a busy server, 1 second
\* after any other error
BackoffByKind ==
    \A i \in DOMAIN call.slept :
      IF call.errors[i] = "server_busy" THEN call.slept[i] \in 2..5 ELSE call.slept[i] = 1

\* every one of the retries + 1 calls ended in an error and the helper is over
Exhausted ==
    call.calls = retries + 1 /\ Len(call.errors) = retries + 1 /\ call.result # "running"

\* C21: one invocation of _safe_exec calls the wrapped engine operation at most
\* retries + 1 = 4 times for any mix of server-busy and other errors, a server-busy
\* error is followed by a backoff of 2 to 5 seconds and any other error by one of 1
\* second, and when all the calls ended in errors the helper raises.
C21_BoundedRetry ==
    /\ AtMostRetriesPlusOne
    /\ BackoffByKind
    /\ Exhausted => call.result = "raised"


\* ---- cancellation inside the wait loops ----

\* the step is an iteration of one of the two wait loops of process_single_file that
\* goes on waiting
KeepsWaiting == pc \in {"poll", "waitpdf"} /\ pc' = pc /\ elapsed' = elapsed + 1

\* C22: the keep-running flag is checked inside the worker-completion poll and the
\* artifact-appearance poll: once the flag is false no iteration of either loop goes on
\* waiting, so the loop is left before its budget or wait window expires.
C22_PollsObserveFlag == [][~is_running => ~KeepsWaiting]_vars


\* ---- the retry pass ----

\* the step begins the retry pass
EntersRetry == pass = "initial" /\ pass' = "retry"

\* the force-terminations of cleanup_all_processes before a retry pass
RetryKills == { [why |-> "retry", app |-> a] : a \in {"word", "excel", "ppt"} }

\* the list holds the files of S, each once
IsListingOf(q, S) ==
    Len(q) = Cardinality(S) /\ { q[i] : i \in 1..Len(q) } = S

\* a retry pass begins at most once, after the initial pass has ended, with failures
\* counted, on the allowed files of the quarantine folder, no retried file started yet
RetryPassOnce ==
    /\ pass = "retry" => pass' = "retry"
    /\ EntersRetry =>
         /\ pc \in {"top", "ask_retry"}
         /\ pc = "top" => (idx > Len(file_list) \/ ~is_running)
         /\ stats.failed + stats.timeout > 0
         /\ IsListingOf(file_list',
                { x \in failed_dir : x.path.base # "~$a"
                                        /\ x.path.cat \in {"word", "excel", "ppt", "pdf"} })
         /\ idx' = 1
         /\ started' = started

\* C23: a retry pass runs at most once per run, only after the initial pass has ended
\* and only if failed + timeout > 0 then; its input is the listing of the quarantine
\* folder filtered by the allowed extensions; and the engine processes are cleaned up
\* after the initial pass and before the first retried file is started, unless the run
\* reuses the engine processes, in which case none is terminated.
C23_RetryPass ==
    [][ /\ RetryPassOnce
        /\ EntersRetry => kills' = (IF reuse_process THEN kills ELSE RetryKills) ]_vars

\* C23 as stated: the cleanup takes place before every retry pass.
C23_RetryPassAlwaysCleans ==
    [][ /\ RetryPassOnce
        /\ EntersRetry => kills' = RetryKills ]_vars

\* a retry pass about to start its one file, the quarantine folder holding two files
\* that are not retried, the engine processes just cleaned up
C23_Witness ==
    /\ pass = "retry"
    /\ pc = "top"
    /\ idx = 1
    /\ Len(file_list) = 1
    /\ Cardinality(failed_dir) = 3
    /\ kills = RetryKills
    /\ stats.timeout = 1


\* ---- priority tagging ----

\* the content of the file id is scanned in this step
ScansNow(id) == ops' # ops /\ \E o \in ops' : o.id = id /\ o.op = "scan"

\* C24: tagging by file name takes precedence over tagging by content: off the standard
\* strategy a file whose name holds a keyword is placed under the prefix Price_ and its
\* content is never scanned, neither by the orchestrator nor by its worker; a content
\* scan is made only of a file whose name matched no keyword; and under the standard
\* strategy nothing is scanned and nothing gets the prefix Price_.
C24_FilenameFirst ==
    /\ [][ Places => (is_filename_match(cur) => last'.path.prefix = "Price_") ]_vars
    /\ [][ started' # started =>
             LET id == started'[Len(started')]
                 kw == IF cur'.id = id THEN cur'.kw ELSE last'.kw
             IN  /\ unscanned' \ unscanned \subseteq {id}
                 /\ \A i \in Ids \ {id} : ~ScansNow(i)
                 /\ (config.content_strategy # STRATEGY_STANDARD /\ kw) =>
                       id \notin unscanned' /\ ~ScansNow(id) ]_vars
    /\ [][ started' = started =>
             /\ unscanned' \subseteq unscanned
             /\ \A i \in Ids : ScansNow(i) => i \in unscanned ]_vars
    /\ [](config.content_strategy = STRATEGY_STANDARD =>
            /\ unscanned = {}
            /\ \A o \in ops : o.op # "scan"
            /\ \A x \in target : x.path.prefix # "Price_")

\* a workbook whose name holds a keyword, placed under Price_ with its content unread,
\* under the strategy that skips what has no keyword
C24_Witness ==
    /\ config.content_strategy = STRATEGY_PRICE_ONLY
    /\ last.cat = "excel"
    /\ last.kw
    /\ last.out = "Succeeded"
    /\ last.path.prefix = "Price_"
    /\ \A o \in ops : o.op # "scan"


\* ---- the sandbox ----

\* the operations that only read the file they are given as their source
ReadsOnly == {"copy_to_sandbox", "quarantine_copy"}

AsSet(q) == { q[i] : i \in 1..Len(q) }

\* the file lies in, or below, an excluded folder
UnderExcluded(f) ==
    \E k \in 1..Len(f.dir), e \in walk.excluded_folders :
      \/ e.kind = "name" /\ e.at = <<f.dir[k]>>
      \/ e.kind = "path" /\ e.at = SubSeq(f.dir, 1, k)

BothScanned == walk.ran = {"convert", "collect"}

\* C25: for the same source folder and configuration both scans apply the same excluded
\* folders and the same lock-file exclusion, and collect mode takes the files the
\* conversion scan yields that belong to the word, excel and powerpoint categories and
\* whose size can be read; it takes no PDF file.
C25_CollectTakesOfficeFiles ==
    BothScanned =>
      /\ AsSet(walk.files) =
           { f \in walk.tree : ~f.lock /\ ~UnderExcluded(f)
                                 /\ f.cat \in {"word", "excel", "ppt", "pdf"} }
      /\ AsSet(walk.all_files) =
           { f \in AsSet(walk.files) : f.cat \in {"word", "excel", "ppt"} /\ f.sized }
      /\ Len(walk.files) = Cardinality(AsSet(walk.files))
      /\ Len(walk.all_files) = Cardinality(AsSet(walk.all_files))

\* C25 as stated: both scans select exactly the same files.
C25_SameFiles ==
    BothScanned => AsSet(walk.all_files) = AsSet(walk.files)

\* a PDF and a document in a subfolder, a folder of another name being excluded: the
\* conversion scan yields both, collect mode the document only
C25_Witness ==
    /\ BothScanned
    /\ walk.excluded_folders # {}
    /\ \E f, g \in walk.tree :
         /\ f.cat = "pdf" /\ g.cat = "word" /\ f.dir = <<"sub">> /\ g.dir = <<"sub">>
         /\ AsSet(walk.files) = {f, g}
         /\ walk.all_files = <<g>>


\* a converting run whose source folder does not exist
MissingSource == config.run_mode \in ConvertModes /\ ~config.source_exists

\* C31: in a converting run whose source folder does not exist at the scan no file is
\* ever processed, the five counters stay 0 and no retry pass runs; the run does not
\* abort: from the scan it goes to the end of the batch, from there to the merge phase
\* and from there to completion, each of these steps being possible, merge_pdfs is
\* invoked exactly when the mode includes the merge and it is enabled, and only the
\* signal handler ends the process.
C31_MissingSourceGoesOn ==
    /\ [](MissingSource =>
            /\ stats = [total |-> 0, success |-> 0, failed |-> 0, timeout |-> 0,
                        skipped |-> 0]
            /\ started = <<>>
            /\ file_list = <<>>
            /\ error_records = <<>>
            /\ pass = "initial"
            /\ pc \in {"wizard", "scan", "top", "merge", "done", "exited"}
            /\ pc = "scan" => ENABLED Scan
            /\ pc = "top" => ENABLED AfterBatch
            /\ pc = "merge" => ENABLED Finish)
    /\ [][MissingSource =>
            /\ pc = "scan" => pc' \in {"scan", "top", "exited"}
            /\ pc = "top" => pc' \in {"top", "merge", "exited"}
            /\ pc = "merge" => pc' \in {"merge", "done", "exited"}
            /\ (pc = "merge" /\ pc' = "done") =>
                  /\ merged' = (config.run_mode = MODE_CONVERT_THEN_MERGE
                                  /\ merge_cfg'.enable_merge)
                  /\ sandbox_src' = {}
            /\ (pc # "exited" /\ pc' = "exited") => signal_handler]_vars

C31_Witness ==
    /\ MissingSource
    /\ pc = "done"
    /\ merged
    /\ stats.total = 0
    /\ is_running

\* C32: at every point of a run, during and after a retry pass included, success +
\* failed + timeout + skipped is at most stats.total, the number of files the scan found.
C32_CountsWithinTotal ==
    stats.success + stats.failed + stats.timeout + stats.skipped <= stats.total

\* the helper is over without raising
ReturnedNormally == call.result \in {"returned", "returned_none"}

\* a call of the wrapped operation returned
SomeCallReturned == call.calls > Len(call.errors)

\* every one of the retries + 1 calls ended in a server-busy error
AllServerBusy ==
    /\ Len(call.errors) = retries + 1
    /\ \A i \in DOMAIN call.errors : call.errors[i] = "server_busy"

\* C33: the engine-call helper returns normally only when a call of the wrapped
\* operation in that invocation returned normally, and then returns that call's
\* result; when every one of the retries + 1 attempts ends in a server-busy error the
\* helper raises rather than returning.
C33_ReturnsOnlyAResult ==
    /\ ReturnedNormally => (SomeCallReturned /\ call.result = "returned")
    /\ (AllServerBusy /\ call.result # "running") => call.result = "raised"

\* C34: whenever the batch counts a file as a success, at that moment the path reported
\* for it (the canonical destination or the backup under conflicts) holds a file
\* produced for it, its scratch artifact, also when the removal or replacement of an
\* existing destination of the same size fails.
C34_SuccessHasItsFile ==
    [][Places =>
         /\ Exists(target', last'.path)
         /\ FileAt(target', last'.path).by = cur.id
         /\ FileAt(target', last'.path).size = sandbox_pdf[cur.id]]_vars

\* the scratch names of the work items of a pass
PassIds(p) == { Id(p, i) : i \in 1..MaxFiles }

\* C35: within one pass the artifact placed at a canonical destination for a work item
\* is neither removed nor replaced by the placement of a later work item of the pass:
\* it is still in the target folder, as it was, after that placement.
C35_EarlierArtifactKept ==
    [][Places =>
         \A x \in target :
           (x.path.dir = "" /\ x.by \in PassIds(pass) /\ x.by # cur.id) => x \in target']_vars

\* a convert-then-merge run whose conversion batch was broken off by the keep-running
\* flag: the flag was true when the first file was taken up and false at the top of a
\* later iteration, so it was cleared during the batch; the run is about to merge
StoppedInBatch ==
    /\ config.run_mode = MODE_CONVERT_THEN_MERGE
    /\ ~is_running
    /\ pass = "initial"
    /\ 1 < idx /\ idx <= Len(file_list)
    /\ pc = "merge"

\* C36: in a convert-then-merge run, once the keep-running flag has been cleared during
\* the conversion batch no merged volume is written in the rest of the run, and no file
\* is started by a retry pass while the flag is false.
C36_StopEndsRun ==
    [][ /\ StoppedInBatch => volumes' = volumes
        /\ (config.run_mode = MODE_CONVERT_THEN_MERGE /\ ~is_running /\ pass' = "retry")
             => started' = started ]_vars

\* the work items whose processing has resolved: started, and no longer at hand
ResolvedIds == { started[i] : i \in DOMAIN started } \ {cur.id}

\* C39: once the processing of a work item has resolved, with any outcome, TimedOut
\* included, no scratch file created for it, source copy or artifact, exists in the
\* sandbox at any later point of the batch, even when the abandoned worker of a
\* timed-out file keeps running.
C39_NoScratchAfterResolution ==
    Running =>
      \A id \in ResolvedIds : id \notin sandbox_src /\ sandbox_pdf[id] = 0

\* the sources of the files that failed or timed out in the initial pass of this run
FailedSources == { error_records[i] : i \in 1..Len(error_records) }

\* how many times the file at position i of the retry list was taken up
TimesRetried(i) == Cardinality({ k \in 1..Len(started) : started[k] = Id("retry", i) })

\* C40: every file of the retry pass is the quarantined copy of a file that failed or
\* timed out in the initial pass of the same run; every such file has exactly one copy in
\* the retry list; no file of the list is taken up twice, and once the pass has gone
\* through its list without a stop request each was taken up exactly once.
C40_RetryIsThisRunsFailures ==
    pass = "retry" =>
      /\ \A i \in 1..Len(file_list) : file_list[i].src \in FailedSources
      /\ \A s \in FailedSources :
           Cardinality({ i \in 1..Len(file_list) : file_list[i].src = s }) = 1
      /\ \A i \in 1..Len(file_list) :
           /\ TimesRetried(i) <= 1
           /\ (pc = "merge" /\ is_running) => TimesRetried(i) = 1

\* ---- the GUI ----

\* C37: in every interleaving of stop_task with the completion of the worker thread,
\* stop_task writes the keep-running flag on a live converter only: it never
\* dereferences current_converter after the worker has reset it to None.
C37_StopOnLiveConverter == gui.error # "AttributeError"

\* the worker threads that are alive
AliveWorkers == { w \in 1..MaxRuns : gui.at[w] \in {"begin", "run"} }

\* C38: in the GUI at most one worker thread, one converter run, is alive at any time:
\* start_task starts no worker thread while the previous one is alive, whatever the
\* sequence of start and stop requests.
C38_OneBackgroundTask ==
    /\ Cardinality(AliveWorkers) <= 1
    /\ AliveWorkers \subseteq {gui.worker_thread}

\* a start was refused, a stop was requested, and the second task runs after the first
\* has ended
C38_Witness ==
    /\ gui.refused
    /\ gui.stop_requested
    /\ gui.worker_thread = 2
    /\ gui.at[1] = "ended"
    /\ gui.at[2] = "run"

====
